---- MODULE Spec2Model ----
(***************************************************************************)
(* CLUBAL / SAL - SESI Agenda Live.                                        *)
(*                                                                         *)
(* A model of the kiosk's core: the weekday/time resolver of sal.py, the   *)
(* weather fetch with cache fallback of weather.py, and the tick that      *)
(* launches the fetch on a worker thread.                                  *)
(*                                                                         *)
(* Three specifications share the variables below; each one moves only the  *)
(* variables of its own part and leaves the others at their idle value:    *)
(*   SpecTime   the pure time functions of sal.py                          *)
(*   SpecFetch  weather.get_weather, step by step, over a file system      *)
(*   SpecSched  SALApp._tick_weather and SALApp._weather_worker threads    *)
(***************************************************************************)
EXTENDS Integers, Sequences, FiniteSets, TLC

VARIABLES
    \* ---- sal.py time functions
    now_dt,         \* datetime.now(): [date |-> ordinal day, min |-> minute of day,
                    \*                  sec |-> second of the minute]
    day_code,       \* ClassItem.day as read from the sheet
    tm_pc,          \* "call" before _best_date_for_daycode ran, "done" after
    bd_date,        \* the date it returned (NoDate for None)
    bd_path         \* how it returned: "invalid", "match" or "fallback"

timeVars == <<now_dt, day_code, tm_pc, bd_date, bd_path>>

VARIABLES
    \* ---- sal.py: SALApp._compute_now_next
    all_items,      \* self.all_items: the rows loaded from the sheet, in sheet order
    ag_pc,          \* "call" before _compute_now_next ran, "done" after
    now_list,       \* its local now_list, as sorted
    next_list,      \* its local next_list, as sorted
    now_cards,      \* the first list it returned
    next_cards,     \* the second list it returned
    discard_day,    \* its local tally of rows dropped for their day
    discard_time,   \* its local tally of rows dropped for their times
    _last_zero_agenda_log_ts,
    zero_logs       \* the times of the "[AGENDA] 0 em AGORA/PROXIMAS" log lines

VARIABLES
    \* ---- sal.py: SALApp._reload_excel_if_needed and grade.xlsx
    last_excel_mtime,   \* self.last_excel_mtime: NoMtime for None
    xl_file,        \* grade.xlsx: whether it is there and loads, its modification
                    \* time, the rows load_classes_from_excel gets from it
    rl,             \* the running call: where it is, its force, its local mtime
    reload_done     \* how many calls have ended, and how the last one ended

xlVars == <<last_excel_mtime, xl_file, rl, reload_done>>

agendaVars == <<all_items, ag_pc, now_list, next_list, now_cards, next_cards, discard_day, discard_time,
                _last_zero_agenda_log_ts, zero_logs, xlVars>>

VARIABLES
    \* ---- sal.py: SALApp._tick and the Tk timer that calls it
    _tick_running,  \* self._tick_running
    _tick_job,      \* self._tick_job: NoJob for None, else the id after() returned
    timers,         \* the ids of the after(1000, self._tick) timers still pending
    tick_stack,     \* the _tick calls that are inside the try block, outermost first
    tick_calls,     \* how many times _tick was called
    tick_bodies,    \* how many times the try block was entered
    tick_scheduled, \* how many times after(1000, self._tick) was called
    tick_errors     \* how many times "Tick error" was logged

tickVars == <<_tick_running, _tick_job, timers, tick_stack, tick_calls, tick_bodies,
              tick_scheduled, tick_errors>>

VARIABLES
    \* ---- sal.py: the body of one tick and _tick_housekeeping
    _last_housekeeping_ts,  \* self._last_housekeeping_ts
    hk_runs,        \* the times at which weather_mod.housekeeping was called
    tick_ran,       \* the steps of the try block the latest tick has reached
    tick_failed     \* the step of the latest tick that raised, or "none"

loopVars == <<_last_housekeeping_ts, hk_runs, tick_ran, tick_failed>>

\* The state of sal.py outside the weather fields.
salVars == <<timeVars, agendaVars, tickVars, loopVars>>

VARIABLES
    \* ---- time.time(), in whole seconds
    clock,
    \* ---- weather.py: the files under the cache root
    cur,            \* weather_cache.json: [c |-> content, m |-> mtime]
    tmp,            \* weather_cache.json.tmp
    archive,        \* cache_old/: a set of [name, c, m]
    \* ---- weather.py: one get_weather call
    gw_pc,          \* where the call is
    gw_calls,       \* calls started so far
    attempt,        \* _http_get_json: the loop variable
    http_log,       \* _http_get_json: the outcome of each opener.open so far
    http_sleeps,    \* _http_get_json: time.sleep(0.4) calls so far
    http_end,       \* _http_get_json: "running", "returned" or "raised"
    payload,        \* the response _http_get_json returned
    res,            \* the WeatherResult built from it
    ret,            \* what get_weather returned
    cur0,           \* the current slot when the call started
    archive0,       \* cache_old/ when the call started
    slot_writes,    \* os.replace calls onto the current slot in this call
    arch_moves      \* os.replace calls into cache_old/ in this call

fsVars == <<cur, tmp, archive>>
gwVars == <<gw_pc, gw_calls, attempt, http_log, http_sleeps, http_end, payload, res, ret,
            cur0, archive0, slot_writes, arch_moves>>

VARIABLES
    \* ---- sal.py: the weather state of SALApp and its two kinds of thread
    weather_last_fetch,
    weather_res,        \* "None" or the kind of the WeatherResult published
    _weather_inflight,
    _weather_lock,      \* who holds it: nobody, the tick or a worker
    tw_pc,              \* the tick thread inside _tick_weather
    wk_pc,              \* each worker thread inside _weather_worker
    wk_res              \* each worker's local res

schedVars == <<weather_last_fetch, weather_res, _weather_inflight, _weather_lock,
               tw_pc, wk_pc, wk_res>>

VARIABLES
    \* ---- weather.py: a run of successful get_weather calls
    fetches,        \* how many calls returned so far
    superseded,     \* the records moved into cache_old/ so far, oldest first
    cleanup_in      \* a call of _cleanup_cache_archive on its own: how many so
                    \* far, the directory the last one found and the names
                    \* its os.remove failed for

rotVars == <<fetches, superseded, cleanup_in>>

VARIABLES
    \* ---- the caller of get_weather
    last_returned   \* what the call before this one returned (NoResult: none, or
                    \* it raised)

VARIABLES
    \* ---- a reader of weather_cache.json beside the writer
    slot_seen       \* the content its last open-and-read gave (Unread: none yet)

\* What outlives one get_weather call, besides the files.
cacheVars == <<rotVars, last_returned, slot_seen>>

vars == <<salVars, clock, fsVars, gwVars, schedVars, cacheVars>>

(***************************************************************************)
(* sal.py: day mapping                                                     *)
(***************************************************************************)

\* Bounds of the reference instants drawn by SpecTime.
FirstRefDate == 2
NumRefDates == 15

RefDates == FirstRefDate..(FirstRefDate + NumRefDates - 1)
RefMinutes == {0, 570, 1439}

\* None, where a date is expected (ordinals start at 1).
NoDate == 0

\* date.weekday(): Monday is 0; ordinal 1 (0001-01-01) is a Monday.
weekday(d) == (d + 6) % 7

DAY_TO_WD == [SEG |-> 0, TER |-> 1, QUA |-> 2, QUI |-> 3, SEX |-> 4, SAB |-> 5, DOM |-> 6]

ValidDayCodes == DOMAIN DAY_TO_WD

\* The day cells the sheet may hold: the 7 codes, differently cased or padded
\* codes, an unknown code, an empty cell.
DayCells == ValidDayCodes \cup {"seg", " qui ", "Dom", "XYZ", "SEGUNDA", ""}

\* (day_code or "").strip().upper()
StripUpper(s) ==
    CASE s = "seg" -> "SEG"
      [] s = " qui " -> "QUI"
      [] s = "Dom" -> "DOM"
      [] OTHER -> s

\* candidates, had the list left out the day before
candidates_without_yesterday(now) == <<now.date, now.date + 1>>

\* candidates = [now.date() - 1 day, now.date(), now.date() + 1 day]
candidates(now) == <<now.date - 1, now.date, now.date + 1>>

\* The first candidate whose weekday is the target, 0 when the loop finds none.
FirstMatch(cands, target_wd) ==
    IF \E i \in 1..Len(cands) : weekday(cands[i]) = target_wd
    THEN CHOOSE i \in 1..Len(cands) :
            /\ weekday(cands[i]) = target_wd
            /\ \A j \in 1..(i - 1) : weekday(cands[j]) # target_wd
    ELSE 0

\* How _best_date_for_daycode leaves: "invalid" (return None), "match" (return d
\* inside the loop) or "fallback" (return now.date() after the loop).
best_date_path(now, dc_raw) ==
    LET dc == StripUpper(dc_raw) IN
    IF dc \notin DOMAIN DAY_TO_WD THEN "invalid"
    ELSE IF FirstMatch(candidates(now), DAY_TO_WD[dc]) # 0 THEN "match"
    ELSE "fallback"

_best_date_for_daycode(now, dc_raw) ==
    LET dc == StripUpper(dc_raw) IN
    IF dc \notin DOMAIN DAY_TO_WD THEN NoDate
    ELSE LET target_wd == DAY_TO_WD[dc]
             cands == candidates(now)
             i == FirstMatch(cands, target_wd)
         IN IF i # 0 THEN cands[i] ELSE now.date

(***************************************************************************)
(* Python values, as json.load yields them                                 *)
(***************************************************************************)

JNull == [k |-> "null"]
JInt(n) == [k |-> "int", v |-> n]
\* A float, kept in tenths: JFloat(215) is 21.5.
JFloat(t) == [k |-> "float", t |-> t]
JStr(s) == [k |-> "str", s |-> s]
JList(items) == [k |-> "list", items |-> items]
JDict(d) == [k |-> "dict", d |-> d]
NoKeys == [x \in {} |-> JNull]
EmptyDict == JDict(NoKeys)
EmptyList == JList(<<>>)

\* An expression that raised: every operation on it raises too.
Raised == [k |-> "raise"]

\* bool(x)
Truthy(j) ==
    CASE j.k = "null" -> FALSE
      [] j.k = "int" -> j.v # 0
      [] j.k = "float" -> j.t # 0
      [] j.k = "str" -> j.s # ""
      [] j.k = "list" -> Len(j.items) > 0
      [] j.k = "dict" -> DOMAIN j.d # {}
      [] OTHER -> FALSE

\* j.get(key, dflt): AttributeError on anything that is not a dict.
Get(j, key, dflt) ==
    IF j.k # "dict" THEN Raised
    ELSE IF key \in DOMAIN j.d THEN j.d[key] ELSE dflt

\* a or b, both already evaluated
Or(a, b) ==
    IF a.k = "raise" \/ b.k = "raise" THEN Raised
    ELSE IF Truthy(a) THEN a ELSE b

\* round(x) of a float in tenths: to the nearest integer, ties to the even one.
RoundTenths(t) ==
    LET q == t \div 10
        r == t % 10
    IN IF r < 5 THEN q
       ELSE IF r > 5 THEN q + 1
       ELSE IF q % 2 = 0 THEN q ELSE q + 1

\* float(s) of the strings of the model, in tenths; -1 where float(s) raises.
NumericStrings == [s \in {"21.5"} |-> 215]

\* weather._safe_int: int(round(float(x))), None on any exception.
_safe_int(x) ==
    CASE x.k = "int" -> JInt(x.v)
      [] x.k = "float" -> JInt(RoundTenths(x.t))
      [] x.k = "str" -> IF x.s \in DOMAIN NumericStrings
                        THEN JInt(RoundTenths(NumericStrings[x.s])) ELSE JNull
      [] OTHER -> JNull

(***************************************************************************)
(* weather.py: parsing and labels                                          *)
(***************************************************************************)

\* time.localtime().tm_hour, the local zone taken to be UTC
HourOf(t) == (t \div 3600) % 24

_pick_period(now_hour) ==
    IF 6 <= now_hour /\ now_hour <= 11 THEN "manha"
    ELSE IF 12 <= now_hour /\ now_hour <= 17 THEN "tarde"
    ELSE "noite"

\* The symbol codes of the model, each with the keywords of humanize that occur
\* in its lower-cased text.
SymbolKeywords ==
    [clearsky_day |-> {"clearsky"},
     fair_night |-> {"fair"},
     partlycloudy_day |-> {"cloudy", "partly"},
     cloudy |-> {"cloudy"},
     rain |-> {"rain"},
     heavyrain |-> {"rain", "heavyrain"},
     lightrainshowers_day |-> {"rain", "lightrain", "lightrainshowers"},
     rainshowersandthunder_day |-> {"rain", "thunder", "rainshowersandthunder"},
     snow |-> {"snow"},
     sleet |-> {"sleet"},
     fog |-> {}]

Has(s, kw) == s \in DOMAIN SymbolKeywords /\ kw \in SymbolKeywords[s]

\* humanize(sym) of _extract_summary: a label, or Raised when sym.lower() raises.
humanize(sym) ==
    IF sym.k = "raise" THEN Raised
    ELSE IF ~Truthy(sym) THEN JStr("Sem dados")
    ELSE IF sym.k # "str" THEN Raised
    ELSE LET s == sym.s IN
         IF Has(s, "thunder") THEN JStr("Tempestade")
         ELSE IF Has(s, "snow") THEN JStr("Neve")
         ELSE IF Has(s, "rain") \/ Has(s, "sleet") THEN
              IF Has(s, "heavyrain") \/ Has(s, "rainshowersandthunder")
                 \/ Has(s, "heavyrainshowers") THEN JStr("Chuva forte")
              ELSE IF Has(s, "lightrain") \/ Has(s, "lightrainshowers")
                   THEN JStr("Chuva fraca")
              ELSE JStr("Chuva")
         ELSE IF Has(s, "cloudy") THEN
              IF Has(s, "partly") THEN JStr("Parcialmente nublado") ELSE JStr("Nublado")
         ELSE IF Has(s, "clearsky") \/ Has(s, "fair") THEN JStr("Ceu limpo")
         ELSE JStr("Tempo instavel")

\* for item in x: the items a for loop visits, or Raised when x is not iterable.
\* The keys of a dict and the characters of a string are strings.
IterItems(x) ==
    CASE x.k = "list" -> [raise |-> FALSE, items |-> x.items]
      [] x.k = "dict" -> [raise |-> FALSE,
                          items |-> IF DOMAIN x.d = {} THEN <<>> ELSE <<JStr("key")>>]
      [] x.k = "str" -> [raise |-> FALSE,
                         items |-> IF x.s = "" THEN <<>> ELSE <<JStr("c")>>]
      [] OTHER -> [raise |-> TRUE, items |-> <<>>]

MinOf(a, b) == IF a <= b THEN a ELSE b
MaxOf(a, b) == IF a >= b THEN a ELSE b

RECURSIVE MinMaxFrom(_, _, _, _)
MinMaxFrom(items, i, tmin, tmax) ==
    IF i > Len(items) THEN [raise |-> FALSE, tmin |-> tmin, tmax |-> tmax]
    ELSE LET inst == Get(Get(Get(items[i], "data", EmptyDict), "instant", EmptyDict),
                         "details", EmptyDict)
             air == Get(inst, "air_temperature", JNull)
             temp == _safe_int(air)
         IN IF air.k = "raise" THEN [raise |-> TRUE, tmin |-> tmin, tmax |-> tmax]
            ELSE IF temp.k = "null" THEN MinMaxFrom(items, i + 1, tmin, tmax)
            ELSE MinMaxFrom(items, i + 1,
                            IF tmin.k = "null" THEN temp ELSE JInt(MinOf(tmin.v, temp.v)),
                            IF tmax.k = "null" THEN temp ELSE JInt(MaxOf(tmax.v, temp.v)))

\* weather._minmax_tomorrow: [raise, tmin, tmax]
_minmax_tomorrow(timeseries) ==
    LET it == IterItems(timeseries) IN
    IF it.raise THEN [raise |-> TRUE, tmin |-> JNull, tmax |-> JNull]
    ELSE MinMaxFrom(it.items, 1, JNull, JNull)

TomorrowPlaceholder == [label |-> "Amanha: -"]

\* weather._extract_summary: [raise |-> TRUE] when it raises, else
\* [raise |-> FALSE, val |-> the WeatherResult]; t is time.time().
_extract_summary(pl, now_hour, t) ==
    LET props == Get(pl, "properties", EmptyDict)
        timeseries == Get(props, "timeseries", EmptyList)
        enter == timeseries.k # "raise" /\ Truthy(timeseries)
        \* timeseries[0]: only a list has an item 0 that may be a dict
        item0 == IF timeseries.k = "list" THEN timeseries.items[1] ELSE Raised
        first == Get(item0, "data", EmptyDict)
        air == Get(Get(Get(first, "instant", EmptyDict), "details", EmptyDict),
                   "air_temperature", JNull)
        n1 == Get(Get(Get(first, "next_1_hours", EmptyDict), "summary", EmptyDict),
                  "symbol_code", JNull)
        n6 == Get(Get(Get(first, "next_6_hours", EmptyDict), "summary", EmptyDict),
                  "symbol_code", JNull)
        temp_now == IF enter /\ air.k # "raise" THEN _safe_int(air) ELSE JNull
        symbol_code == IF enter THEN Or(n1, n6) ELSE JNull
        human == humanize(symbol_code)
        mm == _minmax_tomorrow(timeseries)
        failed == \/ timeseries.k = "raise"
                  \/ enter /\ (air.k = "raise" \/ n1.k = "raise" \/ n6.k = "raise")
                  \/ human.k = "raise"
                  \/ mm.raise
    IN IF failed THEN [raise |-> TRUE]
       ELSE [raise |-> FALSE,
             val |-> [ok |-> TRUE,
                      temp_c |-> temp_now,
                      today_label |-> [label |-> "Hoje", period |-> _pick_period(now_hour),
                                       text |-> human.s],
                      tomorrow_label |->
                          IF mm.tmin.k # "null" /\ mm.tmax.k # "null"
                          THEN [label |-> "Amanha", tmin |-> mm.tmin.v, tmax |-> mm.tmax.v]
                          ELSE TomorrowPlaceholder,
                      symbol_code |-> symbol_code,
                      source |-> "online",
                      cache_ts |-> JInt(t)]]

(***************************************************************************)
(* The responses and the cache files of the model                          *)
(***************************************************************************)

\* One point of the forecast: its time, its temperature and its symbol in one of
\* the two summaries.
Point(time, air, summary, sym) ==
    JDict([time |-> JStr(time),
           data |-> JDict((summary :> JDict([summary |-> JDict([symbol_code |-> JStr(sym)])]))
                          @@ [instant |-> JDict([details |->
                                        JDict([air_temperature |-> air])])])])

Forecast(points) == JDict([properties |-> JDict([timeseries |-> JList(points)])])

PayFair ==
    Forecast(<<Point("d0T12", JFloat(215), "next_1_hours", "clearsky_day"),
               Point("d1T06", JFloat(125), "next_1_hours", "cloudy"),
               Point("d1T15", JInt(24), "next_6_hours", "fair_night")>>)
PayRain ==
    Forecast(<<Point("d0T18", JInt(17), "next_6_hours", "heavyrain"),
               Point("d1T12", JFloat(192), "next_6_hours", "rain")>>)
\* Valid JSON without the forecast shape.
PayEmpty == EmptyDict
PayList == JList(<<JInt(1)>>)
PayNullSeries == JDict([properties |-> JDict([timeseries |-> JNull])])

\* What json.loads may return for a response that decodes.
NetPayloads == {PayFair, PayRain, PayList}

\* A file: content c and modification time m.  A content is a Python value when
\* the text is JSON, Garbage when json.load raises on it, Partial for a text cut
\* short while being written, NoFile when the path does not exist.
Garbage == [k |-> "garbage"]
Partial == [k |-> "partial"]
NoFile == [k |-> "nofile"]
File(c, m) == [c |-> c, m |-> m]
Missing == File(NoFile, 0)
Exists(f) == f.c.k # "nofile"

\* The record, had get_weather stored the ts alone
CacheRecord_without_payload(ts, pl, city) ==
    JDict([ts |-> ts, payload |-> EmptyDict, city |-> JStr(city)])

\* The record get_weather writes.
CacheRecord(ts, pl, city) == JDict([ts |-> ts, payload |-> pl, city |-> JStr(city)])

\* weather._read_json: None when the file is missing or is not JSON.
_read_json(f) == IF f.c.k \in {"nofile", "garbage", "partial"} THEN JNull ELSE f.c

(***************************************************************************)
(* weather.py: the cache files                                             *)
(***************************************************************************)

CACHE_ARCHIVE_KEEP == 10
CACHE_ARCHIVE_MAX_AGE_DAYS == 7
SecondsPerDay == 86400

\* cache_old/weather_cache_<stamp>.json, or ..._<stamp>_<sfx>.json.  The stamp
\* %Y%m%d_%H%M%S has one text per second, so the second itself stands for it;
\* NoSuffix marks the first form.
NoSuffix == 0 - 1
ArchiveName(stamp, sfx) == [stamp |-> stamp, sfx |-> sfx]
Names(dir) == {f.name : f \in dir}

\* The order of the path strings: the stamps have one width, "." sorts before "_".
PathLess(a, b) == a.stamp < b.stamp \/ (a.stamp = b.stamp /\ a.sfx < b.sfx)

\* weather._archive_existing_cache at time t; moved says whether os.replace
\* succeeds when it is reached.  Every exception is caught inside.
_archive_existing_cache(current, dir, t, moved) ==
    LET r == _read_json(current)
        cached == IF Truthy(r) THEN r ELSE EmptyDict
        ts == Get(cached, "ts", JNull)
        stamp == IF ts.k = "int" /\ ts.v > 0 THEN ts.v ELSE t
        first == ArchiveName(stamp, NoSuffix)
        dst == IF first \in Names(dir) THEN ArchiveName(stamp, t) ELSE first
    IN IF ~Exists(current) \/ ts.k = "raise" \/ ~moved
       THEN [cur |-> current, dir |-> dir, moves |-> 0]
       ELSE [cur |-> Missing,
             dir |-> {f \in dir : f.name # dst}
                     \cup {[name |-> dst, c |-> current.c, m |-> current.m]},
             moves |-> 1]

\* _cleanup_cache_archive, had files.sort left out reverse=True
_cleanup_cache_archive_oldest_first(dir, t, fails) ==
    LET max_age == CACHE_ARCHIVE_MAX_AGE_DAYS * SecondsPerDay
        aged == {f \in dir : max_age > 0 /\ (t - f.m) > max_age}
        files == dir \ aged
        Before(g, f) == g.m < f.m \/ (g.m = f.m /\ PathLess(g.name, f.name))
        over == {f \in files :
                    Cardinality({g \in files : Before(g, f)}) >= CACHE_ARCHIVE_KEEP}
    IN dir \ {f \in aged \cup over : f.name \notin fails}

\* weather._cleanup_cache_archive at time t; os.remove fails for the names in
\* fails, which is swallowed.
_cleanup_cache_archive(dir, t, fails) ==
    LET max_age == CACHE_ARCHIVE_MAX_AGE_DAYS * SecondsPerDay
        aged == {f \in dir : max_age > 0 /\ (t - f.m) > max_age}
        files == dir \ aged
        \* files.sort(reverse=True) on (st_mtime, path): g comes before f
        Before(g, f) == g.m > f.m \/ (g.m = f.m /\ PathLess(f.name, g.name))
        over == {f \in files :
                    Cardinality({g \in files : Before(g, f)}) >= CACHE_ARCHIVE_KEEP}
    IN dir \ {f \in aged \cup over : f.name \notin fails}

\* The no-data result of get_weather.
NoData ==
    [ok |-> FALSE, temp_c |-> JNull, today_label |-> [label |-> "Sem dados"],
     tomorrow_label |-> TomorrowPlaceholder, symbol_code |-> JNull,
     source |-> "cache", cache_ts |-> JNull]

\* cache_fallback, had it left out res.cache_ts = cached.get("ts")
cache_fallback_keeps_now(current, now_hour, t) ==
    LET cached == _read_json(current)
        pl == Get(cached, "payload", JNull)
        e == _extract_summary(pl, now_hour, t)
    IN IF ~Truthy(cached) THEN [raise |-> FALSE, val |-> NoData]
       ELSE IF pl.k = "raise" THEN [raise |-> TRUE]
       ELSE IF pl.k # "dict" THEN [raise |-> FALSE, val |-> NoData]
       ELSE IF e.raise THEN [raise |-> TRUE]
       ELSE [raise |-> FALSE, val |-> [e.val EXCEPT !.source = "cache", !.ok = TRUE]]

\* The except branch of get_weather: [raise |-> TRUE] when the handler itself
\* raises, else the result it returns.
cache_fallback(current, now_hour, t) ==
    LET cached == _read_json(current)
        pl == Get(cached, "payload", JNull)
        e == _extract_summary(pl, now_hour, t)
    IN IF ~Truthy(cached) THEN [raise |-> FALSE, val |-> NoData]
       ELSE IF pl.k = "raise" THEN [raise |-> TRUE]
       ELSE IF pl.k # "dict" THEN [raise |-> FALSE, val |-> NoData]
       ELSE IF e.raise THEN [raise |-> TRUE]
       ELSE [raise |-> FALSE,
             val |-> [e.val EXCEPT !.source = "cache",
                                   !.cache_ts = Get(cached, "ts", JNull),
                                   !.ok = TRUE]]

(***************************************************************************)
(* weather.py: _http_get_json and get_weather, step by step                *)
(***************************************************************************)

\* Bounds of SpecFetch.
MaxCalls == 2
FetchStart == 700000
MaxElapsed == 1
CachedTs == 699000
AgedTs == 1000

\* What one opener.open(...) / resp.read() / json.loads(raw) can end in:
\* "ok", an HTTPError, a URLError, a body that json.loads does not decode
\* (JSONDecodeError), or any other exception (a timeout while reading).
HttpOutcomes == {"ok", "HTTPError", "URLError", "JSONDecodeError", "Exception"}

\* RetriesAfter, had json.loads stood outside the try block
RetriesAfter_transport_only(o, n) == o \in {"URLError", "Exception"} /\ n = 1

\* RetriesAfter, had the HTTPError clause retried like the other two
RetriesAfter_any_error(o, n) == o # "ok" /\ n = 1

\* _http_get_json: whether the except clause that catches outcome o on attempt n
\* sleeps and continues (TRUE) or re-raises (FALSE).
RetriesAfter(o, n) == o \in {"URLError", "JSONDecodeError", "Exception"} /\ n = 1

NoResult == [ok |-> FALSE, source |-> "none"]

GwIdle ==
    /\ gw_pc = "idle"
    /\ gw_calls = 0
    /\ attempt = 0
    /\ http_log = <<>>
    /\ http_sleeps = 0
    /\ http_end = "none"
    /\ payload = JNull
    /\ res = NoResult
    /\ ret = NoResult
    /\ cur0 = Missing
    /\ archive0 = {}
    /\ slot_writes = 0
    /\ arch_moves = 0

FsIdle == cur = Missing /\ tmp = Missing /\ archive = {}

\* The current slot on entry: no file, a file that is not JSON, JSON that is not
\* an object, objects without a usable payload, and records get_weather wrote.
InitSlots ==
    {Missing,
     File(Garbage, CachedTs),
     File(PayList, CachedTs),
     File(EmptyList, CachedTs),
     File(JDict([ts |-> JInt(CachedTs), city |-> JStr("Alfenas")]), CachedTs),
     File(CacheRecord(JInt(CachedTs), PayList, "Alfenas"), CachedTs),
     File(CacheRecord(JInt(CachedTs), PayNullSeries, "Alfenas"), CachedTs),
     File(CacheRecord(JInt(CachedTs), PayEmpty, "Alfenas"), CachedTs),
     File(CacheRecord(JInt(CachedTs), PayRain, "Alfenas"), CachedTs),
     File(JDict([payload |-> PayFair]), CachedTs)}

\* cache_old/ on entry: empty, one file past the age limit, or one recent file
\* that already has the name the current record would be archived under.
InitArchives ==
    {{},
     {[name |-> ArchiveName(AgedTs, NoSuffix),
       c |-> CacheRecord(JInt(AgedTs), PayFair, "Alfenas"), m |-> AgedTs]},
     {[name |-> ArchiveName(CachedTs, NoSuffix),
       c |-> CacheRecord(JInt(CachedTs), PayFair, "Alfenas"), m |-> CachedTs - 1]}}

\* Time passes between two calls and while a call waits for the network; the
\* file operations of a call fall within one second.
AdvanceClock ==
    /\ gw_pc \in {"idle", "http"}
    /\ clock < FetchStart + MaxElapsed
    /\ clock' = clock + 1
    /\ UNCHANGED <<salVars, cacheVars, schedVars, fsVars, gwVars>>

\* get_weather is called: lines 392-402
GwStart ==
    /\ gw_pc = "idle"
    /\ gw_calls < MaxCalls
    /\ gw_calls' = gw_calls + 1
    /\ gw_pc' = "http"
    /\ attempt' = 1
    /\ http_log' = <<>>
    /\ http_sleeps' = 0
    /\ http_end' = "running"
    /\ payload' = JNull
    /\ res' = NoResult
    /\ ret' = NoResult
    /\ cur0' = cur
    /\ archive0' = archive
    /\ slot_writes' = 0
    /\ arch_moves' = 0
    /\ UNCHANGED <<salVars, cacheVars, schedVars, clock, fsVars>>

\* _http_get_json: one pass of the loop body, ending in return, raise or sleep
HttpAttempt ==
    /\ gw_pc = "http"
    /\ \E o \in HttpOutcomes :
        /\ http_log' = Append(http_log, o)
        /\ \/ /\ o = "ok"
              /\ \E pl \in NetPayloads : payload' = pl
              /\ http_end' = "returned"
              /\ gw_pc' = "extract"
           \/ /\ o # "ok"
              /\ RetriesAfter(o, attempt)
              /\ gw_pc' = "sleep"
              /\ UNCHANGED <<payload, http_end>>
           \/ /\ o # "ok"
              /\ ~RetriesAfter(o, attempt)
              /\ http_end' = "raised"
              /\ gw_pc' = "except"
              /\ UNCHANGED payload
    /\ UNCHANGED <<salVars, cacheVars, schedVars, clock, fsVars, gw_calls, attempt, http_sleeps, res, ret,
                   cur0, archive0, slot_writes, arch_moves>>

\* _http_get_json: time.sleep(0.4); continue
HttpSleep ==
    /\ gw_pc = "sleep"
    /\ http_sleeps' = http_sleeps + 1
    /\ attempt' = attempt + 1
    /\ gw_pc' = "http"
    /\ UNCHANGED <<salVars, cacheVars, schedVars, clock, fsVars, gw_calls, http_log, http_end, payload, res, ret,
                   cur0, archive0, slot_writes, arch_moves>>

\* res = _extract_summary(payload, now_hour)
GwExtract ==
    /\ gw_pc = "extract"
    /\ LET e == _extract_summary(payload, HourOf(clock), clock) IN
       IF e.raise THEN gw_pc' = "except" /\ UNCHANGED res
       ELSE gw_pc' = "archive" /\ res' = e.val
    /\ UNCHANGED <<salVars, cacheVars, schedVars, clock, fsVars, gw_calls, attempt, http_log, http_sleeps,
                   http_end, payload, ret, cur0, archive0, slot_writes, arch_moves>>

\* _archive_existing_cache(current_cache_path, archive_dir)
GwArchive ==
    /\ gw_pc = "archive"
    /\ \E moved \in BOOLEAN :
        LET a == _archive_existing_cache(cur, archive, clock, moved) IN
        /\ cur' = a.cur
        /\ archive' = a.dir
        /\ arch_moves' = arch_moves + a.moves
    /\ gw_pc' = "write_tmp"
    /\ UNCHANGED <<salVars, cacheVars, schedVars, clock, tmp, gw_calls, attempt, http_log, http_sleeps, http_end,
                   payload, res, ret, cur0, archive0, slot_writes>>

\* _write_json_atomic lines 73-74, had it opened the slot itself for writing
GwWriteTmp_in_place ==
    /\ gw_pc = "write_tmp"
    /\ \/ /\ cur' = File(CacheRecord(res.cache_ts, payload, "Alfenas"), clock)
          /\ gw_pc' = "cleanup"
       \/ /\ cur' = cur
          /\ gw_pc' = "except"
       \/ /\ cur' = File(Partial, clock)
          /\ gw_pc' = "except"
    /\ UNCHANGED <<salVars, cacheVars, schedVars, clock, tmp, archive, gw_calls, attempt, http_log,
                   http_sleeps, http_end, payload, res, ret, cur0, archive0, slot_writes,
                   arch_moves>>

\* _write_json_atomic: open(tmp, "w") and json.dump
GwWriteTmp ==
    /\ gw_pc = "write_tmp"
    /\ \/ /\ tmp' = File(CacheRecord(res.cache_ts, payload, "Alfenas"), clock)
          /\ gw_pc' = "rename"
       \/ \* open raises: nothing is written
          /\ tmp' = tmp
          /\ gw_pc' = "except"
       \/ \* json.dump raises after open truncated the file
          /\ tmp' = File(Partial, clock)
          /\ gw_pc' = "except"
    /\ UNCHANGED <<salVars, cacheVars, schedVars, clock, cur, archive, gw_calls, attempt, http_log, http_sleeps,
                   http_end, payload, res, ret, cur0, archive0, slot_writes, arch_moves>>

\* _write_json_atomic: os.replace(tmp, path)
GwRename ==
    /\ gw_pc = "rename"
    /\ \/ /\ Exists(tmp)
          /\ cur' = tmp
          /\ tmp' = Missing
          /\ slot_writes' = slot_writes + 1
          /\ gw_pc' = "cleanup"
       \/ \* os.replace raises
          /\ gw_pc' = "except"
          /\ UNCHANGED <<cur, tmp, slot_writes>>
    /\ UNCHANGED <<salVars, cacheVars, schedVars, clock, archive, gw_calls, attempt, http_log, http_sleeps,
                   http_end, payload, res, ret, cur0, archive0, arch_moves>>

\* _cleanup_cache_archive(archive_dir); return res
GwCleanup ==
    /\ gw_pc = "cleanup"
    /\ \E fails \in SUBSET Names(archive) :
        archive' = _cleanup_cache_archive(archive, clock, fails)
    /\ ret' = res
    /\ gw_pc' = "returned"
    /\ UNCHANGED <<salVars, cacheVars, schedVars, clock, cur, tmp, gw_calls, attempt, http_log, http_sleeps,
                   http_end, payload, res, cur0, archive0, slot_writes, arch_moves>>

\* except Exception: lines 420-445
GwExcept ==
    /\ gw_pc = "except"
    /\ LET f == cache_fallback(cur, HourOf(clock), clock) IN
       IF f.raise THEN gw_pc' = "raised" /\ UNCHANGED ret
       ELSE gw_pc' = "returned" /\ ret' = f.val
    /\ UNCHANGED <<salVars, cacheVars, schedVars, clock, fsVars, gw_calls, attempt, http_log, http_sleeps,
                   http_end, payload, res, cur0, archive0, slot_writes, arch_moves>>

\* get_weather has returned or raised: its locals are gone
GwFinish ==
    /\ gw_pc \in {"returned", "raised"}
    /\ gw_pc' = "idle"
    /\ attempt' = 0
    /\ http_log' = <<>>
    /\ http_sleeps' = 0
    /\ http_end' = "none"
    /\ payload' = JNull
    /\ res' = NoResult
    /\ ret' = NoResult
    /\ cur0' = Missing
    /\ archive0' = {}
    /\ slot_writes' = 0
    /\ arch_moves' = 0
    /\ last_returned' = IF gw_pc = "returned" THEN ret ELSE NoResult
    /\ UNCHANGED <<salVars, rotVars, slot_seen, schedVars, clock, fsVars, gw_calls>>

(***************************************************************************)
(* weather.py: the slot as seen from outside the writing call              *)
(***************************************************************************)

\* Another thread or process opens weather_cache.json and reads it to the end
\* (_read_json lines 63-64, before the parse): it gets the bytes of the file the
\* name pointed to when it was opened, or no file.
ReadSlot ==
    /\ slot_seen' = cur.c
    /\ UNCHANGED <<salVars, rotVars, last_returned, schedVars, clock, fsVars, gwVars>>

\* The process is ended between two steps of a call: the files stay as they are
\* and no further step runs.
TearDown ==
    /\ gw_pc \notin {"idle", "dead"}
    /\ gw_pc' = "dead"
    /\ UNCHANGED <<salVars, cacheVars, schedVars, clock, fsVars, gw_calls, attempt, http_log,
                   http_sleeps, http_end, payload, res, ret, cur0, archive0, slot_writes,
                   arch_moves>>

\* The slot before the first call of SpecWrite: no file or a complete record.
WriteSlots ==
    {Missing, File(CacheRecord(JInt(CachedTs), PayRain, "Alfenas"), CachedTs)}

(***************************************************************************)
(* sal.py: SALApp._tick_weather and SALApp._weather_worker                 *)
(***************************************************************************)

\* The refresh period of _tick_weather, in seconds.
WEATHER_REFRESH_S == 600

\* Bounds of SpecSched: the threads the model has room for, and the clock.
MaxWorkers == 2
SchedStart == 600
ClockStep == 300
MaxClockSteps == 3

Workers == 1..MaxWorkers

\* What weather_mod.get_weather does for a worker: a fresh result, a result
\* rebuilt from the cache, the no-data result, or an exception.
FetchOutcomes == {"online", "cache", "nodata", "raise"}

Active(w) == wk_pc[w] # "none"

\* Who holds self._weather_lock.
LockFree == [who |-> "free", w |-> 0]
LockTick == [who |-> "tick", w |-> 0]
LockWorker(w) == [who |-> "worker", w |-> w]

SchedIdle ==
    /\ weather_last_fetch = 0
    /\ weather_res = "None"
    /\ _weather_inflight = FALSE
    /\ _weather_lock = LockFree
    /\ tw_pc = "idle"
    /\ wk_pc = [w \in Workers |-> "none"]
    /\ wk_res = [w \in Workers |-> "None"]

\* the clock of the scheduler moves on
TimePasses ==
    /\ clock + ClockStep <= SchedStart + ClockStep * MaxClockSteps
    /\ clock' = clock + ClockStep
    /\ UNCHANGED <<salVars, cacheVars, fsVars, gwVars, schedVars>>

\* _tick calls _tick_weather; the call before it has returned or raised
TwEnter ==
    /\ tw_pc \in {"idle", "raised"}
    /\ tw_pc' = "check_last"
    /\ UNCHANGED <<salVars, cacheVars, clock, fsVars, gwVars, weather_last_fetch, weather_res,
                   _weather_inflight, _weather_lock, wk_pc, wk_res>>

\* line 1382, left operand: (time.time() - self.weather_last_fetch) < 600
TwCheckLast ==
    /\ tw_pc = "check_last"
    /\ tw_pc' = IF clock - weather_last_fetch < WEATHER_REFRESH_S
                THEN "check_res" ELSE "acquire"
    /\ UNCHANGED <<salVars, cacheVars, clock, fsVars, gwVars, weather_last_fetch, weather_res,
                   _weather_inflight, _weather_lock, wk_pc, wk_res>>

\* line 1382, right operand: self.weather_res is not None; return when both hold
TwCheckRes ==
    /\ tw_pc = "check_res"
    /\ tw_pc' = IF weather_res # "None" THEN "idle" ELSE "acquire"
    /\ UNCHANGED <<salVars, cacheVars, clock, fsVars, gwVars, weather_last_fetch, weather_res,
                   _weather_inflight, _weather_lock, wk_pc, wk_res>>

\* line 1385: with self._weather_lock
TwAcquire ==
    /\ tw_pc = "acquire"
    /\ _weather_lock = LockFree
    /\ _weather_lock' = LockTick
    /\ tw_pc' = "locked"
    /\ UNCHANGED <<salVars, cacheVars, clock, fsVars, gwVars, weather_last_fetch, weather_res,
                   _weather_inflight, wk_pc, wk_res>>

\* TwTestAndSet, had it not looked at the flag
TwTestAndSet_unguarded ==
    /\ tw_pc = "locked"
    /\ tw_pc' = "release_start"
    /\ _weather_inflight' = TRUE
    /\ UNCHANGED <<salVars, cacheVars, clock, fsVars, gwVars, weather_last_fetch, weather_res,
                   _weather_lock, wk_pc, wk_res>>

\* lines 1386-1388: return if in flight, else set the flag
TwTestAndSet ==
    /\ tw_pc = "locked"
    /\ IF _weather_inflight
       THEN tw_pc' = "release_return" /\ UNCHANGED _weather_inflight
       ELSE tw_pc' = "release_start" /\ _weather_inflight' = TRUE
    /\ UNCHANGED <<salVars, cacheVars, clock, fsVars, gwVars, weather_last_fetch, weather_res,
                   _weather_lock, wk_pc, wk_res>>

\* the with block is left, by return or at its end
TwRelease ==
    /\ tw_pc \in {"release_return", "release_start"}
    /\ _weather_lock' = LockFree
    /\ tw_pc' = IF tw_pc = "release_start" THEN "start" ELSE "idle"
    /\ UNCHANGED <<salVars, cacheVars, clock, fsVars, gwVars, weather_last_fetch, weather_res,
                   _weather_inflight, wk_pc, wk_res>>

\* lines 1390-1391: th.start() runs a new worker, or raises (no thread can be
\* started) and the exception leaves _tick_weather
TwStart ==
    /\ tw_pc = "start"
    /\ \/ /\ \E w \in Workers :
                /\ ~Active(w)
                /\ wk_pc' = [wk_pc EXCEPT ![w] = "fetch"]
          /\ tw_pc' = "idle"
       \/ /\ UNCHANGED wk_pc
          /\ tw_pc' = "raised"
    /\ UNCHANGED <<salVars, cacheVars, clock, fsVars, gwVars, weather_last_fetch, weather_res,
                   _weather_inflight, _weather_lock, wk_res>>

\* WkGetWeather, had the worker taken the lock before calling get_weather
WkGetWeather_under_lock(w) ==
    /\ wk_pc[w] = "fetch"
    /\ _weather_lock = LockFree
    /\ _weather_lock' = LockWorker(w)
    /\ UNCHANGED <<salVars, cacheVars, clock, fsVars, gwVars, weather_last_fetch, weather_res,
                   _weather_inflight, tw_pc, wk_pc, wk_res>>

\* lines 1364-1371: res = weather_mod.get_weather(...)
WkGetWeather(w) ==
    /\ wk_pc[w] = "fetch"
    /\ \E o \in FetchOutcomes :
        IF o = "raise"
        THEN wk_pc' = [wk_pc EXCEPT ![w] = "final_acquire"] /\ UNCHANGED wk_res
        ELSE wk_pc' = [wk_pc EXCEPT ![w] = "acquire"] /\ wk_res' = [wk_res EXCEPT ![w] = o]
    /\ UNCHANGED <<salVars, cacheVars, clock, fsVars, gwVars, weather_last_fetch, weather_res,
                   _weather_inflight, _weather_lock, tw_pc>>

\* lines 1372 and 1378: with self._weather_lock
WkAcquire(w) ==
    /\ wk_pc[w] \in {"acquire", "final_acquire"}
    /\ _weather_lock = LockFree
    /\ _weather_lock' = LockWorker(w)
    /\ wk_pc' = [wk_pc EXCEPT ![w] = IF wk_pc[w] = "acquire" THEN "set_res" ELSE "clear"]
    /\ UNCHANGED <<salVars, cacheVars, clock, fsVars, gwVars, weather_last_fetch, weather_res,
                   _weather_inflight, tw_pc, wk_res>>

\* line 1373: self.weather_res = res
WkSetRes(w) ==
    /\ wk_pc[w] = "set_res"
    /\ weather_res' = wk_res[w]
    /\ wk_pc' = [wk_pc EXCEPT ![w] = "set_last"]
    /\ UNCHANGED <<salVars, cacheVars, clock, fsVars, gwVars, weather_last_fetch,
                   _weather_inflight, _weather_lock, tw_pc, wk_res>>

\* line 1374: self.weather_last_fetch = time.time()
WkSetLast(w) ==
    /\ wk_pc[w] = "set_last"
    /\ weather_last_fetch' = clock
    /\ wk_pc' = [wk_pc EXCEPT ![w] = "release"]
    /\ UNCHANGED <<salVars, cacheVars, clock, fsVars, gwVars, weather_res,
                   _weather_inflight, _weather_lock, tw_pc, wk_res>>

\* line 1379: self._weather_inflight = False
WkClear(w) ==
    /\ wk_pc[w] = "clear"
    /\ _weather_inflight' = FALSE
    /\ wk_pc' = [wk_pc EXCEPT ![w] = "final_release"]
    /\ UNCHANGED <<salVars, cacheVars, clock, fsVars, gwVars, weather_last_fetch, weather_res,
                   _weather_lock, tw_pc, wk_res>>

\* a with block of the worker is left; after the one of the finally clause
\* the worker has finished
WkRelease(w) ==
    /\ wk_pc[w] \in {"release", "final_release"}
    /\ _weather_lock' = LockFree
    /\ wk_pc' = [wk_pc EXCEPT ![w] = IF wk_pc[w] = "release" THEN "final_acquire" ELSE "none"]
    /\ wk_res' = IF wk_pc[w] = "release" THEN wk_res ELSE [wk_res EXCEPT ![w] = "None"]
    /\ UNCHANGED <<salVars, cacheVars, clock, fsVars, gwVars, weather_last_fetch, weather_res,
                   _weather_inflight, tw_pc>>

(***************************************************************************)
(* weather.py: the archive over a run of successful fetches                *)
(***************************************************************************)

\* Bound: the calls of one run.
MaxFetches == 12

\* The seconds between one call and the next: the same second, or the refresh
\* period of the kiosk.
RotSteps == {0, WEATHER_REFRESH_S}

\* The n-th response: every response differs from the ones before it.
PaySerial(n) == Forecast(<<Point("d0T12", JInt(n), "next_1_hours", "clearsky_day")>>)

\* No call of _cleanup_cache_archive on its own yet.
NoCleanup == [n |-> 0, dir |-> {}, fails |-> {}]

RotIdle == fetches = 0 /\ superseded = <<>> /\ cleanup_in = NoCleanup

\* No read of the slot yet.
Unread == [k |-> "unread"]

CacheIdle == RotIdle /\ last_returned = NoResult /\ slot_seen = Unread

\* get_weather, lines 404-418, when no step of it fails: the response parses,
\* the current record is moved to cache_old/, the new one is written and
\* renamed into place, and every os.remove of the pruning succeeds.
FetchOnline ==
    /\ fetches < MaxFetches
    /\ \E dt \in RotSteps :
        LET t == clock + dt
            pl == PaySerial(fetches + 1)
            e == _extract_summary(pl, HourOf(t), t)
            a == _archive_existing_cache(cur, archive, t, TRUE)
        IN /\ ~e.raise
           /\ clock' = t
           /\ superseded' = IF a.moves = 1 THEN Append(superseded, cur.c) ELSE superseded
           /\ cur' = File(CacheRecord(e.val.cache_ts, pl, "Alfenas"), t)
           /\ last_returned' = e.val
           /\ archive' = _cleanup_cache_archive(a.dir, t, {})
    /\ tmp' = Missing
    /\ fetches' = fetches + 1
    /\ UNCHANGED <<salVars, gwVars, schedVars, slot_seen, cleanup_in>>

(***************************************************************************)
(* sal.py: time cells, intervals, and the now / next lists                 *)
(***************************************************************************)

\* ClassItem, as load_classes_from_excel builds it: the day cell stripped and
\* upper-cased, the other cells stripped; rows with an empty DIA, INICIO, FIM
\* or ATIVIDADE cell are skipped there.
ClassItem(day, start, end, activity, teacher, location, tag) ==
    [day |-> day, start |-> start, end |-> end, activity |-> activity,
     teacher |-> teacher, location |-> location, tag |-> tag]

\* A time cell is held as the pieces s.split(":") yields: a piece int() turns
\* into n, or a piece on which int() raises ValueError.
Num(n) == [isnum |-> TRUE, n |-> n]
Txt == [isnum |-> FALSE, n |-> 0]

\* "HH:MM"
T(hh, mm) == <<Num(hh), Num(mm)>>

\* None, where parse_hhmm returns minutes.
NoMinutes == 0 - 1

\* parse_hhmm: the empty string has no pieces here; an int() that raises lands
\* in `except Exception: return None`.
parse_hhmm(s) ==
    IF Len(s) = 0 THEN NoMinutes
    ELSE IF Len(s) < 2 THEN NoMinutes
    ELSE IF ~s[1].isnum \/ ~s[2].isnum THEN NoMinutes
    ELSE LET hh == s[1].n
             mm == s[2].n
         IN IF 0 <= hh /\ hh <= 23 /\ 0 <= mm /\ mm <= 59
            THEN hh * 60 + mm
            ELSE NoMinutes

\* None, where _parse_time_obj returns a datetime.time.
NoTime == [hour |-> 0 - 1, minute |-> 0 - 1]

_parse_time_obj(s) ==
    LET m == parse_hhmm(s) IN
    IF m = NoMinutes THEN NoTime ELSE [hour |-> m \div 60, minute |-> m % 60]

\* datetime.combine(date, time)
combine(d, t) == [date |-> d, min |-> t.hour * 60 + t.minute, sec |-> 0]

\* Seconds from the start of ordinal day 0: it orders two datetimes, and the
\* difference of two is (a - b).total_seconds().
Seconds(dt) == dt.date * SecondsPerDay + dt.min * 60 + dt.sec

\* dt + timedelta(days=n), dt + timedelta(minutes=n)
PlusDays(dt, n) == [dt EXCEPT !.date = @ + n]
PlusMinutes(dt, n) ==
    LET x == Seconds(dt) + n * 60 IN
    [date |-> x \div SecondsPerDay, min |-> (x % SecondsPerDay) \div 60, sec |-> x % 60]

\* None, where _item_interval_debug returns an interval.
NoInterval == [start_dt |-> [date |-> NoDate, min |-> 0, sec |-> 0],
               end_dt |-> [date |-> NoDate, min |-> 0, sec |-> 0]]

\* _item_interval_debug from its end_dt comparison on, had it moved the end
\* only when it is before the start
WrapEnd_strict(start_dt, end_dt) ==
    [interval |-> [start_dt |-> start_dt,
                   end_dt |-> IF Seconds(end_dt) < Seconds(start_dt)
                              THEN PlusDays(end_dt, 1)
                              ELSE end_dt],
     reason |-> "ok"]

\* _item_interval_debug from its end_dt comparison on, had it left the end on
\* the day of the start
WrapEnd_same_day(start_dt, end_dt) ==
    [interval |-> [start_dt |-> start_dt, end_dt |-> end_dt], reason |-> "ok"]

\* _item_interval_debug from its end_dt comparison on:
\* if end_dt <= start_dt: end_dt = end_dt + timedelta(days=1)
WrapEnd(start_dt, end_dt) ==
    [interval |-> [start_dt |-> start_dt,
                   end_dt |-> IF Seconds(end_dt) <= Seconds(start_dt)
                              THEN PlusDays(end_dt, 1)
                              ELSE end_dt],
     reason |-> "ok"]

\* _item_interval_debug from its locals, had it looked at the times before
\* the day
IntervalFrom_time_first(base_date, t_start, t_end) ==
    IF t_start = NoTime \/ t_end = NoTime
    THEN [interval |-> NoInterval, reason |-> "invalid_time"]
    ELSE IF base_date = NoDate THEN [interval |-> NoInterval, reason |-> "invalid_day"]
    ELSE WrapEnd(combine(base_date, t_start), combine(base_date, t_end))

\* _item_interval_debug from its locals base_date, t_start and t_end.
IntervalFrom(base_date, t_start, t_end) ==
    IF base_date = NoDate THEN [interval |-> NoInterval, reason |-> "invalid_day"]
    ELSE IF t_start = NoTime \/ t_end = NoTime
    THEN [interval |-> NoInterval, reason |-> "invalid_time"]
    ELSE WrapEnd(combine(base_date, t_start), combine(base_date, t_end))

_item_interval_debug(now, it) ==
    IntervalFrom(_best_date_for_daycode(now, it.day),
                 _parse_time_obj(it.start), _parse_time_obj(it.end))

\* A float that is a quotient of two whole numbers of seconds, kept exact and
\* in lowest terms, so that equal values are equal records.
RECURSIVE GCD(_, _)
GCD(a, b) == IF b = 0 THEN a ELSE GCD(b, a % b)

Frac(n, d) ==
    LET g == GCD(IF n < 0 THEN 0 - n ELSE n, d) IN
    [num |-> n \div g, den |-> d \div g]

FracLess(a, b) == a.num * b.den < b.num * a.den

\* max(a, b) and min(a, b) of Python: the first argument unless the second beats it
FracMax(a, b) == IF FracLess(a, b) THEN b ELSE a
FracMin(a, b) == IF FracLess(b, a) THEN b ELSE a

Zero == Frac(0, 1)
One == Frac(1, 1)

\* 0.02, the least progress an upcoming card shows
NextFloor == Frac(2, 100)

\* timedelta(minutes=120)
LookaheadMinutes == 120

\* now_cards[:6], next_cards[:6]
MaxCards == 6

\* max(0.0, min(1.0, done / total)), 0.0 when total <= 0
NowRatio(total, done) ==
    IF total <= 0 THEN Zero ELSE FracMax(Zero, FracMin(One, Frac(done, total)))

\* progress of a current row, had it measured what is left
NowProgress_remaining(now, start_dt, end_dt) ==
    NowRatio(Seconds(end_dt) - Seconds(start_dt), Seconds(end_dt) - Seconds(now))

\* progress of a current row
NowProgress(now, start_dt, end_dt) ==
    NowRatio(Seconds(end_dt) - Seconds(start_dt), Seconds(now) - Seconds(start_dt))

\* 1.0 - (remaining / total_win), clamped
NextRaw(total_win, remaining) ==
    IF total_win <= 0 THEN Zero
    ELSE FracMax(Zero, FracMin(One, Frac(total_win - remaining, total_win)))

\* progress_next, had the 0.02 floor been left out
NextProgress_no_floor(now, window_end, start_dt) ==
    NextRaw(Seconds(window_end) - Seconds(now), Seconds(start_dt) - Seconds(now))

\* progress_next of an upcoming row
NextProgress(now, window_end, start_dt) ==
    FracMax(NextFloor,
            NextRaw(Seconds(window_end) - Seconds(now), Seconds(start_dt) - Seconds(now)))

\* The 9-tuple appended to now_list / next_list.
ListTuple(it, progress, end_dt, start_dt) ==
    [start |-> it.start, end |-> it.end, activity |-> it.activity, teacher |-> it.teacher,
     location |-> it.location, tag |-> it.tag, progress |-> progress,
     end_dt |-> end_dt, start_dt |-> start_dt]

\* (a, b, c, d, e, f, g): the 7-tuple of a card
Card(t) ==
    [start |-> t.start, end |-> t.end, activity |-> t.activity, teacher |-> t.teacher,
     location |-> t.location, tag |-> t.tag, progress |-> t.progress]

\* The locals of _compute_now_next before its loop.
ScanStart == [now_list |-> <<>>, next_list |-> <<>>,
              discard_day |-> 0, discard_time |-> 0, discard_other |-> 0]

\* The loop body after the interval r of the row is known, had the second
\* branch been an `if`
PlaceItem_both_lists(acc, it, now, window_end, r) ==
    IF r.reason = "invalid_day" THEN [acc EXCEPT !.discard_day = @ + 1]
    ELSE IF r.reason = "invalid_time" THEN [acc EXCEPT !.discard_time = @ + 1]
    ELSE IF r.reason # "ok" THEN [acc EXCEPT !.discard_other = @ + 1]
    ELSE [acc EXCEPT
            !.now_list =
                IF /\ Seconds(r.interval.start_dt) <= Seconds(now)
                   /\ Seconds(now) < Seconds(r.interval.end_dt)
                THEN Append(@, ListTuple(it,
                                NowProgress(now, r.interval.start_dt, r.interval.end_dt),
                                r.interval.end_dt, r.interval.start_dt))
                ELSE @,
            !.next_list =
                IF /\ Seconds(now) <= Seconds(r.interval.start_dt)
                   /\ Seconds(r.interval.start_dt) <= Seconds(window_end)
                THEN Append(@, ListTuple(it,
                                NextProgress(now, window_end, r.interval.start_dt),
                                r.interval.end_dt, r.interval.start_dt))
                ELSE @]

\* The loop body after the interval r of the row is known, had the upcoming
\* test come first and the current test been the elif
PlaceItem_upcoming_first(acc, it, now, window_end, r) ==
    IF r.reason = "invalid_day" THEN [acc EXCEPT !.discard_day = @ + 1]
    ELSE IF r.reason = "invalid_time" THEN [acc EXCEPT !.discard_time = @ + 1]
    ELSE IF r.reason # "ok" THEN [acc EXCEPT !.discard_other = @ + 1]
    ELSE IF /\ Seconds(now) <= Seconds(r.interval.start_dt)
            /\ Seconds(r.interval.start_dt) <= Seconds(window_end)
    THEN [acc EXCEPT !.next_list =
            Append(@, ListTuple(it, NextProgress(now, window_end, r.interval.start_dt),
                                r.interval.end_dt, r.interval.start_dt))]
    ELSE IF /\ Seconds(r.interval.start_dt) <= Seconds(now)
            /\ Seconds(now) < Seconds(r.interval.end_dt)
    THEN [acc EXCEPT !.now_list =
            Append(@, ListTuple(it, NowProgress(now, r.interval.start_dt, r.interval.end_dt),
                                r.interval.end_dt, r.interval.start_dt))]
    ELSE acc

\* The loop body after `interval, reason = _item_interval_debug(now_dt, it)`,
\* r being that pair.
PlaceItem(acc, it, now, window_end, r) ==
    IF r.reason = "invalid_day" THEN [acc EXCEPT !.discard_day = @ + 1]
    ELSE IF r.reason = "invalid_time" THEN [acc EXCEPT !.discard_time = @ + 1]
    ELSE IF r.reason # "ok" THEN [acc EXCEPT !.discard_other = @ + 1]
    ELSE IF /\ Seconds(r.interval.start_dt) <= Seconds(now)
            /\ Seconds(now) < Seconds(r.interval.end_dt)
    THEN [acc EXCEPT !.now_list =
            Append(@, ListTuple(it, NowProgress(now, r.interval.start_dt, r.interval.end_dt),
                                r.interval.end_dt, r.interval.start_dt))]
    ELSE IF /\ Seconds(now) <= Seconds(r.interval.start_dt)
            /\ Seconds(r.interval.start_dt) <= Seconds(window_end)
    THEN [acc EXCEPT !.next_list =
            Append(@, ListTuple(it, NextProgress(now, window_end, r.interval.start_dt),
                                r.interval.end_dt, r.interval.start_dt))]
    ELSE acc

\* One pass of `for it in self.all_items`.
ScanStep(acc, it, now, window_end) ==
    PlaceItem(acc, it, now, window_end, _item_interval_debug(now, it))

\* The loop over the first n rows.
RECURSIVE ScanItems(_, _, _, _)
ScanItems(items, n, now, window_end) ==
    IF n = 0 THEN ScanStart
    ELSE ScanStep(ScanItems(items, n - 1, now, window_end), items[n], now, window_end)

\* Where x goes in an ascending list: behind every element whose key is not
\* greater than its own.
InsertByKey(head, x, field) ==
    LET k == Cardinality({j \in 1..Len(head) : Seconds(head[j][field]) <= Seconds(x[field])})
    IN SubSeq(head, 1, k) \o <<x>> \o SubSeq(head, k + 1, Len(head))

\* list.sort(key=...), had it put the later key first
RECURSIVE SortByKey_descending(_, _)
SortByKey_descending(list, field) ==
    IF Len(list) <= 1 THEN list
    ELSE LET n == Len(list)
             head == SortByKey_descending(SubSeq(list, 1, n - 1), field)
             k == Cardinality({j \in 1..Len(head) :
                                 Seconds(head[j][field]) >= Seconds(list[n][field])})
         IN SubSeq(head, 1, k) \o <<list[n]>> \o SubSeq(head, k + 1, Len(head))

\* list.sort(key=lambda t: t[field]): ascending and stable. Each element, taken
\* in list order, is inserted among those already placed.
RECURSIVE SortByKey(_, _)
SortByKey(list, field) ==
    IF Len(list) <= 1 THEN list
    ELSE InsertByKey(SortByKey(SubSeq(list, 1, Len(list) - 1), field),
                     list[Len(list)], field)

\* s[:n]
Take(s, n) == SubSeq(s, 1, IF Len(s) < n THEN Len(s) ELSE n)

\* [(a, b, c, d, e, f, g) for ... in list]
Cards(list) == [i \in 1..Len(list) |-> Card(list[i])]

\* The locals after both sorts.
SortLists(acc) ==
    [acc EXCEPT !.now_list = SortByKey(@, "end_dt"),
                !.next_list = SortByKey(@, "start_dt")]

\* The two tests before the anomaly log, had the second been left out
ZeroAgendaDue_no_window(acc, items, now, last_log_ts) ==
    /\ Len(items) > 0
    /\ Len(acc.now_list) = 0
    /\ Len(acc.next_list) = 0

\* if self.all_items and (len(now_cards) == 0 and len(next_cards) == 0):
\*     if time.time() - self._last_zero_agenda_log_ts > 60:
ZeroAgendaDue(acc, items, now, last_log_ts) ==
    /\ Len(items) > 0
    /\ Len(acc.now_list) = 0
    /\ Len(acc.next_list) = 0
    /\ Seconds(now) - last_log_ts > 60

\* The return statement, and the anomaly log before it: time.time() is the
\* wall clock datetime.now() read a moment earlier.
ReturnCards(acc, items, now, last_log_ts) ==
    [now_list |-> acc.now_list,
     next_list |-> acc.next_list,
     now_cards |-> Take(Cards(acc.now_list), MaxCards),
     next_cards |-> Take(Cards(acc.next_list), MaxCards),
     discard_day |-> acc.discard_day,
     discard_time |-> acc.discard_time,
     logged |-> ZeroAgendaDue(acc, items, now, last_log_ts),
     last_log_ts |-> IF ZeroAgendaDue(acc, items, now, last_log_ts)
                     THEN Seconds(now)
                     ELSE last_log_ts]

\* What _compute_now_next returns and leaves behind, from self.all_items, the
\* datetime.now() it reads and self._last_zero_agenda_log_ts.
_compute_now_next(items, now, last_log_ts) ==
    ReturnCards(SortLists(ScanItems(items, Len(items), now,
                                    PlusMinutes(now, LookaheadMinutes))),
                items, now, last_log_ts)

\* ---- the sheets and reference instants the now / next lists are computed for

Row(day, start, end, activity) == ClassItem(day, start, end, activity, "", "SALA 1", "GERAL")

\* Three overlapping morning rows, two of them with the same times.
SmallPool == {Row("QUA", T(9, 0), T(10, 0), "A"),
              Row("QUA", T(9, 0), T(10, 0), "B"),
              Row("QUA", T(9, 15), T(9, 30), "C")}

\* Also: a row over midnight with seconds in its cells, a row whose end equals
\* its start, a row with a bad day and a bad time, a row with an hour out of
\* range, and a row with a minute that is no number.
Pool == SmallPool \cup
        {Row("QUA", <<Num(23), Num(30), Num(0)>>, <<Num(0), Num(30), Num(0)>>, "D"),
         Row("QUA", T(0, 30), T(0, 30), "E"),
         Row("XYZ", <<Txt>>, T(10, 0), "G"),
         Row("QUA", T(9, 0), T(24, 0), "H"),
         Row("QUA", <<Num(9), Txt>>, T(10, 0), "I")}

\* Bounds: the length of the sheets of small-pool rows, and the longest sheet
\* of rows of the whole pool.
MaxItems == 7
ShortLen == 3

\* The reference days: the Tuesday, Wednesday and Thursday of the first week,
\* for which a QUA row is dated tomorrow, today and yesterday.
AgendaDates == {d \in RefDates : d < FirstRefDate + 7 /\ weekday(d) \in {1, 2, 3}}

\* 00:15:00, 07:15:00, 07:15:30, 08:30:00, 09:15:00, 09:30:00, 23:45:00
AgendaTimes == {[min |-> 15, sec |-> 0], [min |-> 435, sec |-> 0], [min |-> 435, sec |-> 30],
                [min |-> 510, sec |-> 0], [min |-> 555, sec |-> 0], [min |-> 570, sec |-> 0],
                [min |-> 1425, sec |-> 0]}

AgendaRefs == {[date |-> d, min |-> t.min, sec |-> t.sec] : d \in AgendaDates, t \in AgendaTimes}

\* The interval r puts its row in one of the two lists at the instant.
ListedAt(r, now) ==
    /\ r.reason = "ok"
    /\ Seconds(now) < Seconds(r.interval.end_dt)
    /\ Seconds(r.interval.start_dt) <= Seconds(now) + LookaheadMinutes * 60

\* The row is current or upcoming at the instant.
Listed(it, now) == ListedAt(_item_interval_debug(now, it), now)

\* The instants at which every row of the small pool is listed.
BusyRefs == {now \in AgendaRefs : \A it \in SmallPool : Listed(it, now)}

SeqsUpTo(S, n) == UNION {[1..k -> S] : k \in 0..n}

\* Every short sheet at every instant, and every sheet longer than the cards
\* shown at the busy instants.
AgendaInputs ==
    (AgendaRefs \X SeqsUpTo(Pool, ShortLen)) \cup (BusyRefs \X [1..MaxItems -> SmallPool])

\* Bounds of SpecReload: the modification times of grade.xlsx, the rows of a
\* sheet, and the calls of _reload_excel_if_needed.
MaxMtime == 3
MaxSheetRows == 1
MaxReloads == 3

\* self.last_excel_mtime = None
NoMtime == 0

\* grade.xlsx: not there ("missing", getmtime raises), there but
\* load_classes_from_excel raises on it ("bad"), or a workbook with rows.
XlFile(k, m, rows) == [k |-> k, m |-> m, rows |-> rows]

\* No call of _reload_excel_if_needed is running.
RlIdle == [pc |-> "idle", force |-> FALSE, mtime |-> NoMtime]

\* SALApp.__init__ lines 1101-1102, before the first reload; no grade.xlsx yet.
XlIdle ==
    /\ last_excel_mtime = NoMtime
    /\ xl_file = XlFile("missing", 0, <<>>)
    /\ rl = RlIdle
    /\ reload_done = [n |-> 0, end |-> "none"]

\* The sheet was loaded from a workbook by the reload at boot.
XlLoaded(items) ==
    /\ last_excel_mtime = 1
    /\ xl_file = XlFile("ok", 1, items)
    /\ rl = RlIdle
    /\ reload_done = [n |-> 1, end |-> "loaded"]

AgendaIdle ==
    /\ XlIdle
    /\ all_items = <<>>
    /\ ag_pc = "idle"
    /\ now_list = <<>>
    /\ next_list = <<>>
    /\ now_cards = <<>>
    /\ next_cards = <<>>
    /\ discard_day = 0
    /\ discard_time = 0
    /\ _last_zero_agenda_log_ts = 0
    /\ zero_logs = <<>>

\* The tick takes over what _compute_now_next returned.
AgendaReturns(r) ==
    /\ now_list' = r.now_list
    /\ next_list' = r.next_list
    /\ now_cards' = r.now_cards
    /\ next_cards' = r.next_cards
    /\ discard_day' = r.discard_day
    /\ discard_time' = r.discard_time
    /\ _last_zero_agenda_log_ts' = r.last_log_ts
    /\ zero_logs' = IF r.logged THEN Append(zero_logs, r.last_log_ts) ELSE zero_logs

\* One call of self._compute_now_next() from the tick.
ComputeNowNext ==
    /\ ag_pc = "call"
    /\ AgendaReturns(_compute_now_next(all_items, now_dt, _last_zero_agenda_log_ts))
    /\ ag_pc' = "done"
    /\ UNCHANGED <<timeVars, all_items, xlVars, tickVars, loopVars, clock, fsVars, gwVars, schedVars,
                   cacheVars>>

(***************************************************************************)
(* sal.py: SALApp._reload_excel_if_needed                                  *)
(***************************************************************************)

\* The rest of the agenda fields, which a reload leaves alone.
agendaRest == <<ag_pc, now_list, next_list, now_cards, next_cards, discard_day, discard_time,
                _last_zero_agenda_log_ts, zero_logs>>

\* What a save of grade.xlsx may leave: a workbook with up to MaxSheetRows
\* rows, or a file load_classes_from_excel raises on (no SAL sheet, no
\* headers, not a workbook, half written).
XlContents ==
    {[k |-> "ok", rows |-> r] : r \in SeqsUpTo(SmallPool, MaxSheetRows)}
        \cup {[k |-> "bad", rows |-> <<>>]}

\* Someone saves, replaces or removes grade.xlsx.  A save stamps the file with
\* the time of the save, so modification times do not go back.
EditExcel ==
    /\ \/ \E c \in XlContents, m \in xl_file.m..MaxMtime :
            /\ m >= 1
            /\ xl_file' = XlFile(c.k, m, c.rows)
       \/ /\ xl_file.k # "missing"
          /\ xl_file' = XlFile("missing", xl_file.m, <<>>)
    /\ xl_file' # xl_file
    /\ UNCHANGED <<timeVars, all_items, agendaRest, last_excel_mtime, rl, reload_done, tickVars,
                   loopVars, clock, fsVars, gwVars, schedVars, cacheVars>>

\* lines 1289-1290: mtime = os.path.getmtime(EXCEL_PATH) and the test; the
\* first call is the one of __init__, with force=True.
ReloadStat ==
    /\ rl.pc = "idle"
    /\ reload_done.n < MaxReloads
    /\ LET force == reload_done.n = 0 IN
       IF xl_file.k = "missing"
       THEN /\ reload_done' = [n |-> reload_done.n + 1, end |-> "failed"]
            /\ rl' = RlIdle
       ELSE IF force \/ last_excel_mtime = NoMtime \/ xl_file.m # last_excel_mtime
       THEN /\ rl' = [pc |-> "load", force |-> force, mtime |-> xl_file.m]
            /\ UNCHANGED reload_done
       ELSE /\ reload_done' = [n |-> reload_done.n + 1, end |-> "skipped"]
            /\ rl' = RlIdle
    /\ UNCHANGED <<timeVars, all_items, agendaRest, last_excel_mtime, xl_file, tickVars, loopVars,
                   clock, fsVars, gwVars, schedVars, cacheVars>>

\* ReloadLoad, had the modification time been recorded before the load
ReloadLoad_mtime_first ==
    /\ rl.pc = "load"
    /\ last_excel_mtime' = rl.mtime
    /\ \/ /\ xl_file.k = "ok"
          /\ all_items' = xl_file.rows
          /\ reload_done' = [n |-> reload_done.n + 1, end |-> "loaded"]
       \/ /\ UNCHANGED all_items
          /\ reload_done' = [n |-> reload_done.n + 1, end |-> "failed"]
    /\ rl' = RlIdle
    /\ UNCHANGED <<timeVars, agendaRest, xl_file, tickVars, loopVars, clock, fsVars, gwVars,
                   schedVars, cacheVars>>

\* lines 1291-1296: items = load_classes_from_excel(EXCEL_PATH), then the two
\* assignments; or the load raises (the file as it is now does not load, or
\* it cannot be opened) and the except clause logs it.
ReloadLoad ==
    /\ rl.pc = "load"
    /\ \/ /\ xl_file.k = "ok"
          /\ all_items' = xl_file.rows
          /\ last_excel_mtime' = rl.mtime
          /\ reload_done' = [n |-> reload_done.n + 1, end |-> "loaded"]
       \/ /\ UNCHANGED <<all_items, last_excel_mtime>>
          /\ reload_done' = [n |-> reload_done.n + 1, end |-> "failed"]
    /\ rl' = RlIdle
    /\ UNCHANGED <<timeVars, agendaRest, xl_file, tickVars, loopVars, clock, fsVars, gwVars,
                   schedVars, cacheVars>>

(***************************************************************************)
(* sal.py: SALApp._tick                                                    *)
(***************************************************************************)

\* Bound of SpecTick: the calls of _tick.
MaxTickCalls == 14

\* self._tick_job = None
NoJob == 0

\* SALApp.__init__ lines 1113-1114, before its call of self._tick().
TickIdle ==
    /\ _tick_running = FALSE
    /\ _tick_job = NoJob
    /\ timers = {}
    /\ tick_stack = <<>>
    /\ tick_calls = 0
    /\ tick_bodies = 0
    /\ tick_scheduled = 0
    /\ tick_errors = 0

\* _tick up to the try, had it no test of _tick_running
TickCall_unguarded ==
    /\ tick_calls' = tick_calls + 1
    /\ _tick_running' = TRUE
    /\ tick_stack' = Append(tick_stack, "body")
    /\ tick_bodies' = tick_bodies + 1

\* _tick lines 1404-1406: return at once when a tick is running, else set the
\* flag and enter the try.
TickCall ==
    /\ tick_calls' = tick_calls + 1
    /\ IF _tick_running
       THEN UNCHANGED <<_tick_running, tick_stack, tick_bodies>>
       ELSE /\ _tick_running' = TRUE
            /\ tick_stack' = Append(tick_stack, "body")
            /\ tick_bodies' = tick_bodies + 1

\* SALApp.__init__ line 1135: the first call.
TickFromInit ==
    /\ tick_calls = 0
    /\ TickCall
    /\ UNCHANGED <<timeVars, agendaVars, loopVars, _tick_job, timers, tick_scheduled, tick_errors,
                   clock, fsVars, gwVars, schedVars, cacheVars>>

\* The event loop, with no callback running, fires a pending tick timer: the
\* timer is spent and _tick is called.
TimerFires ==
    /\ tick_calls > 0
    /\ tick_calls < MaxTickCalls
    /\ tick_stack = <<>>
    /\ \E id \in timers :
        /\ timers' = timers \ {id}
        /\ TickCall
    /\ UNCHANGED <<timeVars, agendaVars, loopVars, _tick_job, tick_scheduled, tick_errors,
                   clock, fsVars, gwVars, schedVars, cacheVars>>

\* _tick is called from inside the try block of a running tick.
NestedCall ==
    /\ tick_calls < MaxTickCalls
    /\ tick_stack # <<>>
    /\ TickCall
    /\ UNCHANGED <<timeVars, agendaVars, loopVars, _tick_job, timers, tick_scheduled, tick_errors,
                   clock, fsVars, gwVars, schedVars, cacheVars>>

\* The innermost running tick leaves its try block, normally or through the
\* except clause, and runs the finally clause, lines 1439-1448: clear the flag,
\* cancel the remembered job, schedule the next tick and remember it.
TickExit ==
    /\ tick_stack # <<>>
    /\ \E raised \in BOOLEAN :
        tick_errors' = IF raised THEN tick_errors + 1 ELSE tick_errors
    /\ _tick_running' = FALSE
    /\ tick_scheduled' = tick_scheduled + 1
    /\ timers' = (timers \ {_tick_job}) \cup {tick_scheduled + 1}
    /\ _tick_job' = tick_scheduled + 1
    /\ tick_stack' = SubSeq(tick_stack, 1, Len(tick_stack) - 1)
    /\ UNCHANGED <<timeVars, agendaVars, loopVars, tick_calls, tick_bodies,
                   clock, fsVars, gwVars, schedVars, cacheVars>>

(***************************************************************************)
(* sal.py: the tick body, step by step, with the workers beside it         *)
(***************************************************************************)

\* Bounds of SpecLoop: the ticks of one run, the time of boot, and the days and
\* refresh periods after boot at which the clock is read.
MaxLoopTicks == 3
LoopStart == 100000
MaxLoopDays == 1
MaxLoopRefreshes == 1

\* The period of _tick_housekeeping, in seconds.
HOUSEKEEPING_S == 86400

\* The values time.time() takes: whole days and refresh periods after boot.
LoopClocks ==
    {LoopStart + d * HOUSEKEEPING_S + k * WEATHER_REFRESH_S :
        d \in 0..MaxLoopDays, k \in 0..MaxLoopRefreshes}

\* SALApp.__init__ line 1110, and nothing run yet.
LoopIdle ==
    /\ _last_housekeeping_ts = 0
    /\ hk_runs = <<>>
    /\ tick_ran = {}
    /\ tick_failed = "none"

\* weather.housekeeping at time t: prune the archive, then remove the .tmp file
\* if there is one; os.remove fails for the names in fails and, when
\* tmp_fails, for the .tmp file, and every such failure is swallowed.
housekeeping(dir, tmpf, t, fails, tmp_fails) ==
    [archive |-> _cleanup_cache_archive(dir, t, fails),
     tmp |-> IF Exists(tmpf) /\ ~tmp_fails THEN Missing ELSE tmpf]

\* The _tick fields a step of the body leaves alone.
tickRest == <<_tick_running, _tick_job, timers, tick_calls, tick_bodies, tick_scheduled,
              tick_errors>>

\* The running tick is at step p of its try block.
AtStep(p) == tick_stack # <<>> /\ tick_stack[Len(tick_stack)] = p

\* ... and goes on to step p.
GoTo(p) == tick_stack' = [tick_stack EXCEPT ![Len(tick_stack)] = p]

\* time.time() moves on between two ticks: a tick body takes far less than
\* the second between ticks.
LoopTimePasses ==
    /\ tick_stack = <<>>
    /\ \E t \in LoopClocks :
        /\ t > clock
        /\ clock' = t
    /\ UNCHANGED <<salVars, cacheVars, fsVars, gwVars, schedVars>>

\* SALApp.__init__ lines 1124-1127: weather_mod.housekeeping at boot, inside a
\* try of its own.
BootHousekeeping ==
    /\ hk_runs = <<>>
    /\ tick_calls = 0
    /\ hk_runs' = <<clock>>
    /\ \E fails \in SUBSET Names(archive), tmp_fails \in BOOLEAN :
        LET h == housekeeping(archive, tmp, clock, fails, tmp_fails) IN
        archive' = h.archive /\ tmp' = h.tmp
    /\ UNCHANGED <<timeVars, agendaVars, tickVars, _last_housekeeping_ts, tick_ran, tick_failed,
                   clock, cur, gwVars, schedVars, cacheVars>>

\* SALApp.__init__ line 1135, after the boot housekeeping.
FirstTick == hk_runs # <<>> /\ TickFromInit

\* The tick timer fires, while the run has ticks left.
NextTick == tick_calls < MaxLoopTicks /\ TimerFires

\* _tick lines 1409-1425: theme, clock labels, hours card, sheet reload,
\* _compute_now_next and set_cards; any of them may raise.
BodyAgenda ==
    /\ AtStep("body")
    /\ tick_ran' = {"agenda"}
    /\ \/ GoTo("weather_call") /\ tick_failed' = "none"
       \/ GoTo("except") /\ tick_failed' = "agenda"
    /\ UNCHANGED <<timeVars, agendaVars, tickRest, _last_housekeeping_ts, hk_runs,
                   clock, fsVars, gwVars, schedVars, cacheVars>>

\* _tick line 1427: self._tick_weather() is called.
BodyCallWeather ==
    /\ AtStep("weather_call")
    /\ tw_pc \in {"idle", "raised"}
    /\ tw_pc' = "check_last"
    /\ GoTo("weather")
    /\ tick_ran' = tick_ran \cup {"weather"}
    /\ UNCHANGED <<timeVars, agendaVars, tickRest, _last_housekeeping_ts, hk_runs, tick_failed,
                   clock, fsVars, gwVars, weather_last_fetch, weather_res,
                   _weather_inflight, _weather_lock, wk_pc, wk_res, cacheVars>>

\* _tick_weather has returned, or the exception of th.start() reaches the
\* except clause of _tick.
BodyWeatherEnds ==
    /\ AtStep("weather")
    /\ \/ tw_pc = "idle" /\ GoTo("res_lock") /\ UNCHANGED tick_failed
       \/ tw_pc = "raised" /\ GoTo("except") /\ tick_failed' = "weather"
    /\ UNCHANGED <<timeVars, agendaVars, tickRest, _last_housekeeping_ts, hk_runs, tick_ran,
                   clock, fsVars, gwVars, schedVars, cacheVars>>

\* _tick line 1429: with self._weather_lock
BodyLockRes ==
    /\ AtStep("res_lock")
    /\ _weather_lock = LockFree
    /\ _weather_lock' = LockTick
    /\ GoTo("res_read")
    /\ UNCHANGED <<timeVars, agendaVars, tickRest, loopVars, clock, fsVars, gwVars,
                   weather_last_fetch, weather_res, _weather_inflight, tw_pc, wk_pc, wk_res,
                   cacheVars>>

\* _tick lines 1430-1432: res = self.weather_res, the lock is released, and
\* set_weather is called when there is a result; it may raise.
BodyRender ==
    /\ AtStep("res_read")
    /\ _weather_lock' = LockFree
    /\ tick_ran' = tick_ran \cup {"render"}
    /\ \/ GoTo("housekeeping") /\ UNCHANGED tick_failed
       \/ weather_res # "None" /\ GoTo("except") /\ tick_failed' = "render"
    /\ UNCHANGED <<timeVars, agendaVars, tickRest, _last_housekeeping_ts, hk_runs,
                   clock, fsVars, gwVars, weather_last_fetch, weather_res, _weather_inflight,
                   tw_pc, wk_pc, wk_res, cacheVars>>

\* _tick_housekeeping, lines 1393-1401: return when less than 86400 s passed
\* since _last_housekeeping_ts, else remember the time and run the
\* housekeeping inside a try.
BodyHousekeeping ==
    /\ AtStep("housekeeping")
    /\ tick_ran' = tick_ran \cup {"housekeeping"}
    /\ IF clock - _last_housekeeping_ts < HOUSEKEEPING_S
       THEN UNCHANGED <<_last_housekeeping_ts, hk_runs, fsVars>>
       ELSE /\ _last_housekeeping_ts' = clock
            /\ hk_runs' = Append(hk_runs, clock)
            /\ \E fails \in SUBSET Names(archive), tmp_fails \in BOOLEAN :
                LET h == housekeeping(archive, tmp, clock, fails, tmp_fails) IN
                archive' = h.archive /\ tmp' = h.tmp
            /\ UNCHANGED cur
    /\ GoTo("end")
    /\ UNCHANGED <<timeVars, agendaVars, tickRest, tick_failed, clock, gwVars, schedVars,
                   cacheVars>>

\* BodyLeaves, had the rescheduling stood at the end of the try block and not
\* in a finally clause
BodyLeaves_without_finally ==
    \/ AtStep("end") /\ TickExit /\ tick_errors' = tick_errors
    \/ /\ AtStep("except")
       /\ tick_stack' = SubSeq(tick_stack, 1, Len(tick_stack) - 1)
       /\ tick_errors' = tick_errors + 1
       /\ UNCHANGED <<timeVars, agendaVars, loopVars, _tick_running, _tick_job, timers,
                      tick_calls, tick_bodies, tick_scheduled, clock, fsVars, gwVars,
                      schedVars, cacheVars>>

\* The try block is left, at its end or through the except clause, and the
\* finally clause runs.
BodyLeaves ==
    \/ AtStep("end") /\ TickExit /\ tick_errors' = tick_errors
    \/ AtStep("except") /\ TickExit /\ tick_errors' = tick_errors + 1

TimeIdle ==
    /\ now_dt = [date |-> FirstRefDate, min |-> 0, sec |-> 0]
    /\ day_code = ""
    /\ tm_pc = "idle"
    /\ bd_date = NoDate
    /\ bd_path = "none"

FetchInit ==
    /\ TimeIdle
    /\ AgendaIdle
    /\ TickIdle
    /\ LoopIdle
    /\ CacheIdle
    /\ clock = FetchStart
    /\ cur \in InitSlots
    /\ tmp = Missing
    /\ archive \in InitArchives
    /\ GwIdle
    /\ SchedIdle

FetchNext ==
    \/ AdvanceClock
    \/ GwStart
    \/ HttpAttempt
    \/ HttpSleep
    \/ GwExtract
    \/ GwArchive
    \/ GwWriteTmp
    \/ GwRename
    \/ GwCleanup
    \/ GwExcept
    \/ GwFinish

SpecFetch == FetchInit /\ [][FetchNext]_vars

\* Bound of SpecSummary: the points of one response.
MaxPoints == 3

\* The day of a point's "time", counted from the day of the call: 0 is today,
\* 1 tomorrow, 2 the day after.
TimeDay == [d0T12 |-> 0, d0T18 |-> 0, d1T06 |-> 1, d1T15 |-> 1, d2T12 |-> 2]

\* Forecast points of today, of tomorrow and of the day after, one of them
\* without a temperature.
SummaryPoints ==
    {Point("d0T12", JInt(30), "next_1_hours", "clearsky_day"),
     Point("d0T18", JInt(12), "next_6_hours", "rain"),
     Point("d1T06", JInt(15), "next_1_hours", "cloudy"),
     Point("d1T15", JInt(24), "next_6_hours", "fair_day"),
     Point("d1T15", JNull, "next_6_hours", "fair_day"),
     Point("d2T12", JInt(35), "next_6_hours", "clearsky_day")}

\* The responses SpecSummary draws: up to MaxPoints points in any order.
SummaryPayloads ==
    {Forecast(ps) : ps \in UNION {[1..n -> SummaryPoints] : n \in 0..MaxPoints}}

\* get_weather at line 405, the response just received.
SummaryInit ==
    /\ TimeIdle
    /\ AgendaIdle
    /\ TickIdle
    /\ LoopIdle
    /\ CacheIdle
    /\ clock = FetchStart
    /\ FsIdle
    /\ SchedIdle
    /\ gw_pc = "extract"
    /\ gw_calls = 1
    /\ attempt = 1
    /\ http_log = <<"ok">>
    /\ http_sleeps = 0
    /\ http_end = "returned"
    /\ payload \in SummaryPayloads
    /\ res = NoResult
    /\ ret = NoResult
    /\ cur0 = Missing
    /\ archive0 = {}
    /\ slot_writes = 0
    /\ arch_moves = 0

SummaryNext == GwExtract

SpecSummary == SummaryInit /\ [][SummaryNext]_vars

\* get_weather calls within one second, a reader of the slot beside them, and
\* the end of the process at any step.
WriteInit ==
    /\ TimeIdle
    /\ AgendaIdle
    /\ TickIdle
    /\ LoopIdle
    /\ CacheIdle
    /\ clock = FetchStart
    /\ cur \in WriteSlots
    /\ tmp = Missing
    /\ archive \in InitArchives
    /\ GwIdle
    /\ SchedIdle

WriteNext ==
    \/ GwStart
    \/ HttpAttempt
    \/ HttpSleep
    \/ GwExtract
    \/ GwArchive
    \/ GwWriteTmp
    \/ GwRename
    \/ GwCleanup
    \/ GwExcept
    \/ GwFinish
    \/ ReadSlot
    \/ TearDown

SpecWrite == WriteInit /\ [][WriteNext]_vars

\* _tick_housekeeping on the Tk thread while a worker is inside get_weather:
\* the day has passed, weather.housekeeping runs on the cache directory the
\* worker is writing.
HousekeepingDuringFetch ==
    /\ gw_pc # "idle"
    /\ clock - _last_housekeeping_ts >= HOUSEKEEPING_S
    /\ _last_housekeeping_ts' = clock
    /\ hk_runs' = Append(hk_runs, clock)
    /\ \E fails \in SUBSET Names(archive), tmp_fails \in BOOLEAN :
        LET h == housekeeping(archive, tmp, clock, fails, tmp_fails) IN
        archive' = h.archive /\ tmp' = h.tmp
    /\ UNCHANGED <<timeVars, agendaVars, tickVars, tick_ran, tick_failed, clock, cur, gwVars,
                   schedVars, cacheVars>>

\* _write_json_atomic on a disk that does not fail by itself: open and
\* json.dump succeed.
WriteTmpSound == GwWriteTmp /\ gw_pc' = "rename"

\* os.replace on a disk that does not fail by itself: it raises only when the
\* .tmp file is not there.
RenameSound == GwRename /\ (Exists(tmp) => gw_pc' = "cleanup")

\* get_weather on the worker thread and the daily housekeeping on the Tk
\* thread, on a disk that does not fail by itself.
HkInit ==
    /\ TimeIdle
    /\ AgendaIdle
    /\ TickIdle
    /\ LoopIdle
    /\ CacheIdle
    /\ clock = FetchStart
    /\ cur \in InitSlots
    /\ tmp = Missing
    /\ archive \in InitArchives
    /\ GwIdle
    /\ SchedIdle

HkNext ==
    \/ GwStart
    \/ HttpAttempt
    \/ HttpSleep
    \/ GwExtract
    \/ GwArchive
    \/ WriteTmpSound
    \/ RenameSound
    \/ GwCleanup
    \/ GwExcept
    \/ GwFinish
    \/ HousekeepingDuringFetch

SpecHk == HkInit /\ [][HkNext]_vars

SchedInit ==
    /\ TimeIdle
    /\ AgendaIdle
    /\ TickIdle
    /\ LoopIdle
    /\ CacheIdle
    /\ clock = SchedStart
    /\ FsIdle
    /\ GwIdle
    /\ SchedIdle

SchedNext ==
    \/ TimePasses
    \/ TwEnter
    \/ TwCheckLast
    \/ TwCheckRes
    \/ TwAcquire
    \/ TwTestAndSet
    \/ TwRelease
    \/ TwStart
    \/ \E w \in Workers :
        \/ WkGetWeather(w)
        \/ WkAcquire(w)
        \/ WkSetRes(w)
        \/ WkSetLast(w)
        \/ WkClear(w)
        \/ WkRelease(w)

SpecSched == SchedInit /\ [][SchedNext]_vars

\* The steps of the tick thread inside _tick_weather that wait for nothing.
TickSteps == TwEnter \/ TwCheckLast \/ TwCheckRes \/ TwTestAndSet \/ TwRelease \/ TwStart

\* The steps of worker w that wait for nothing: get_weather returns or raises
\* (its HTTP calls carry timeout=6), and the statements under the lock.
WorkerSteps(w) ==
    WkGetWeather(w) \/ WkSetRes(w) \/ WkSetLast(w) \/ WkClear(w) \/ WkRelease(w)

\* Every thread keeps running, and a thread that asks for the lock again and
\* again gets it: the lock is held for a few statements only.
SchedFairness ==
    /\ WF_vars(TickSteps)
    /\ SF_vars(TwAcquire)
    /\ \A w \in Workers : WF_vars(WorkerSteps(w)) /\ SF_vars(WkAcquire(w))

SpecSchedFair == SpecSched /\ SchedFairness

TimeInit ==
    /\ now_dt \in [date : RefDates, min : RefMinutes, sec : {0}]
    /\ day_code \in DayCells
    /\ tm_pc = "call"
    /\ bd_date = NoDate
    /\ bd_path = "none"
    /\ AgendaIdle
    /\ TickIdle
    /\ LoopIdle
    /\ CacheIdle
    /\ clock = 0
    /\ FsIdle
    /\ GwIdle
    /\ SchedIdle

CallBestDate ==
    /\ tm_pc = "call"
    /\ bd_date' = _best_date_for_daycode(now_dt, day_code)
    /\ bd_path' = best_date_path(now_dt, day_code)
    /\ tm_pc' = "done"
    /\ UNCHANGED <<now_dt, day_code, agendaVars, tickVars, loopVars, clock, fsVars, gwVars, schedVars,
                   cacheVars>>

TimeNext == CallBestDate

SpecTime == TimeInit /\ [][TimeNext]_vars

AgendaInit ==
    /\ \E inp \in AgendaInputs :
        /\ now_dt = inp[1]
        /\ all_items = inp[2]
        /\ XlLoaded(inp[2])
    /\ day_code = ""
    /\ tm_pc = "idle"
    /\ bd_date = NoDate
    /\ bd_path = "none"
    /\ ag_pc = "call"
    /\ now_list = <<>>
    /\ next_list = <<>>
    /\ now_cards = <<>>
    /\ next_cards = <<>>
    /\ discard_day = 0
    /\ discard_time = 0
    /\ _last_zero_agenda_log_ts = 0
    /\ zero_logs = <<>>
    /\ TickIdle
    /\ LoopIdle
    /\ CacheIdle
    /\ clock = 0
    /\ FsIdle
    /\ GwIdle
    /\ SchedIdle

AgendaNext == ComputeNowNext

SpecAgenda == AgendaInit /\ [][AgendaNext]_vars

\* Bounds of SpecAnomaly: the seconds the ticks go on for, and the longest
\* pause between two ticks.
AnomalySeconds == 125
LongPause == 61

\* The pauses between one call of _compute_now_next and the next: a tick
\* period, half a minute, and a tick that was held up.
AnomalyPauses == {1, 30, LongPause}

\* A sheet that is empty, one whose only row ends at 10:00, one whose only
\* row has no valid day, and one with both rows.
AnomalySheets ==
    {<<>>,
     <<Row("QUA", T(9, 0), T(10, 0), "A")>>,
     <<Row("XYZ", T(9, 0), T(10, 0), "G")>>,
     <<Row("XYZ", T(9, 0), T(10, 0), "G"), Row("QUA", T(9, 0), T(10, 0), "A")>>}

\* A Wednesday at 09:59:00, the sheet loaded, the first call about to be made.
AnomalyInit ==
    /\ day_code = ""
    /\ tm_pc = "idle"
    /\ bd_date = NoDate
    /\ bd_path = "none"
    /\ \E d \in AgendaDates :
        /\ weekday(d) = DAY_TO_WD["QUA"]
        /\ now_dt = [date |-> d, min |-> 599, sec |-> 0]
    /\ \E sh \in AnomalySheets :
        /\ all_items = sh
        /\ XlLoaded(sh)
    /\ ag_pc = "call"
    /\ now_list = <<>>
    /\ next_list = <<>>
    /\ now_cards = <<>>
    /\ next_cards = <<>>
    /\ discard_day = 0
    /\ discard_time = 0
    /\ _last_zero_agenda_log_ts = 0
    /\ zero_logs = <<>>
    /\ TickIdle
    /\ LoopIdle
    /\ CacheIdle
    /\ clock = 0
    /\ FsIdle
    /\ GwIdle
    /\ SchedIdle

\* The tick ends and the next one comes: datetime.now() has moved on.
NextPass ==
    /\ ag_pc = "done"
    /\ \E dt \in AnomalyPauses :
        /\ now_dt.min * 60 + now_dt.sec + dt <= 599 * 60 + AnomalySeconds
        /\ now_dt' = [date |-> now_dt.date,
                      min |-> (now_dt.min * 60 + now_dt.sec + dt) \div 60,
                      sec |-> (now_dt.min * 60 + now_dt.sec + dt) % 60]
    /\ ag_pc' = "call"
    /\ UNCHANGED <<day_code, tm_pc, bd_date, bd_path, all_items, now_list, next_list, now_cards,
                   next_cards, discard_day, discard_time, _last_zero_agenda_log_ts, zero_logs,
                   xlVars, tickVars, loopVars, clock, fsVars, gwVars, schedVars, cacheVars>>

AnomalyNext == ComputeNowNext \/ NextPass

SpecAnomaly == AnomalyInit /\ [][AnomalyNext]_vars

\* SALApp.__init__ up to line 1133; grade.xlsx as it may be found at boot.
ReloadInit ==
    /\ TimeIdle
    /\ all_items = <<>>
    /\ ag_pc = "idle"
    /\ now_list = <<>>
    /\ next_list = <<>>
    /\ now_cards = <<>>
    /\ next_cards = <<>>
    /\ discard_day = 0
    /\ discard_time = 0
    /\ _last_zero_agenda_log_ts = 0
    /\ zero_logs = <<>>
    /\ last_excel_mtime = NoMtime
    /\ xl_file \in {XlFile("missing", 0, <<>>)} \cup {XlFile(c.k, 1, c.rows) : c \in XlContents}
    /\ rl = RlIdle
    /\ reload_done = [n |-> 0, end |-> "none"]
    /\ TickIdle
    /\ LoopIdle
    /\ CacheIdle
    /\ clock = 0
    /\ FsIdle
    /\ GwIdle
    /\ SchedIdle

ReloadNext == EditExcel \/ ReloadStat \/ ReloadLoad

SpecReload == ReloadInit /\ [][ReloadNext]_vars

\* Bound of SpecWeek: the rows of a sheet.
WeekLen == 2

\* Rows of three different weekdays, two of them at the same hours.
WeekPool == {Row("QUI", T(9, 0), T(10, 0), "A"),
             Row("SEG", T(9, 0), T(10, 0), "B"),
             Row("DOM", T(23, 30), T(0, 30), "C")}

\* Every day of the first week, at the times of AgendaTimes.
WeekRefs == {[date |-> d, min |-> t.min, sec |-> t.sec] :
                d \in {x \in RefDates : x < FirstRefDate + 7}, t \in AgendaTimes}

WeekInputs == WeekRefs \X SeqsUpTo(WeekPool, WeekLen)

\* The sheet loaded and the tick about to call _compute_now_next, on any day
\* of the week.
WeekInit ==
    /\ \E inp \in WeekInputs :
        /\ now_dt = inp[1]
        /\ all_items = inp[2]
        /\ XlLoaded(inp[2])
    /\ day_code = ""
    /\ tm_pc = "idle"
    /\ bd_date = NoDate
    /\ bd_path = "none"
    /\ ag_pc = "call"
    /\ now_list = <<>>
    /\ next_list = <<>>
    /\ now_cards = <<>>
    /\ next_cards = <<>>
    /\ discard_day = 0
    /\ discard_time = 0
    /\ _last_zero_agenda_log_ts = 0
    /\ zero_logs = <<>>
    /\ TickIdle
    /\ LoopIdle
    /\ CacheIdle
    /\ clock = 0
    /\ FsIdle
    /\ GwIdle
    /\ SchedIdle

WeekNext == ComputeNowNext

SpecWeek == WeekInit /\ [][WeekNext]_vars

\* The ticks of one run of the application.
TickInit ==
    /\ TimeIdle
    /\ AgendaIdle
    /\ TickIdle
    /\ LoopIdle
    /\ CacheIdle
    /\ clock = 0
    /\ FsIdle
    /\ GwIdle
    /\ SchedIdle

TickNext ==
    \/ TickFromInit
    \/ TimerFires
    \/ NestedCall
    \/ TickExit

SpecTick == TickInit /\ [][TickNext]_vars

\* One run of the application: boot, then ticks, with the fetch workers the
\* ticks start.
LoopInit ==
    /\ TimeIdle
    /\ AgendaIdle
    /\ TickIdle
    /\ LoopIdle
    /\ CacheIdle
    /\ clock = LoopStart
    /\ FsIdle
    /\ GwIdle
    /\ SchedIdle

LoopNext ==
    \/ LoopTimePasses
    \/ BootHousekeeping
    \/ FirstTick
    \/ NextTick
    \/ BodyAgenda
    \/ BodyCallWeather
    \/ TwCheckLast
    \/ TwCheckRes
    \/ TwAcquire
    \/ TwTestAndSet
    \/ TwRelease
    \/ TwStart
    \/ BodyWeatherEnds
    \/ BodyLockRes
    \/ BodyRender
    \/ BodyHousekeeping
    \/ BodyLeaves
    \/ \E w \in Workers :
        \/ WkGetWeather(w)
        \/ WkAcquire(w)
        \/ WkSetRes(w)
        \/ WkSetLast(w)
        \/ WkClear(w)
        \/ WkRelease(w)

SpecLoop == LoopInit /\ [][LoopNext]_vars

\* The statements of the tick thread, the ones that take the lock included.
TickThread ==
    \/ BodyAgenda \/ BodyCallWeather \/ TwCheckLast \/ TwCheckRes \/ TwAcquire
    \/ TwTestAndSet \/ TwRelease \/ TwStart \/ BodyWeatherEnds \/ BodyLockRes
    \/ BodyRender \/ BodyHousekeeping \/ BodyLeaves

\* The statements of worker w between taking the lock and giving it back.
UnderLock(w) == WkSetRes(w) \/ WkSetLast(w) \/ WkClear(w) \/ WkRelease(w)

\* The tick thread keeps running and a worker that holds the lock keeps
\* running; nothing is asked of a worker inside get_weather or waiting for the
\* lock, nor of the timer.
LoopFairness ==
    /\ WF_vars(TickThread)
    /\ \A w \in Workers : WF_vars(UnderLock(w))

SpecLoopFair == SpecLoop /\ LoopFairness

RotInit ==
    /\ TimeIdle
    /\ AgendaIdle
    /\ TickIdle
    /\ LoopIdle
    /\ clock = FetchStart
    /\ FsIdle
    /\ GwIdle
    /\ SchedIdle
    /\ CacheIdle

RotNext == FetchOnline

SpecRotate == RotInit /\ [][RotNext]_vars

\* Bounds of SpecClean: the recent files every directory holds, the calls in
\* a row, and the os.remove failures of one call.
CleanBase == 9
MaxCleanups == 2
MaxRmFailures == 2
CleanNow == 2000000

\* An archive file last modified age seconds before CleanNow, named after that
\* second.
Archived(age, sfx) ==
    [name |-> ArchiveName(CleanNow - age, sfx),
     c |-> CacheRecord(JInt(CleanNow - age), PayFair, "Alfenas"), m |-> CleanNow - age]

\* The files a directory may hold besides the base: two more recent files, one
\* with the same modification time as one of the base, a file exactly seven
\* days old, and two older than that.
CleanExtras ==
    {Archived(CleanBase * 60 + 60, NoSuffix),
     Archived(CleanBase * 60, 7),
     Archived(CACHE_ARCHIVE_MAX_AGE_DAYS * SecondsPerDay, NoSuffix),
     Archived(CACHE_ARCHIVE_MAX_AGE_DAYS * SecondsPerDay + 1, NoSuffix),
     Archived(9 * SecondsPerDay, NoSuffix)}

\* cache_old/ as a call may find it.
CleanDirs ==
    {{Archived(i * 60, NoSuffix) : i \in 1..CleanBase} \cup x : x \in SUBSET CleanExtras}

CleanInit ==
    /\ TimeIdle
    /\ AgendaIdle
    /\ TickIdle
    /\ LoopIdle
    /\ CacheIdle
    /\ clock = CleanNow
    /\ cur = Missing
    /\ tmp = Missing
    /\ archive \in CleanDirs
    /\ GwIdle
    /\ SchedIdle

\* One call of _cleanup_cache_archive(archive_dir).
CallCleanup ==
    /\ cleanup_in.n < MaxCleanups
    /\ \E fails \in {F \in SUBSET Names(archive) : Cardinality(F) <= MaxRmFailures} :
        /\ archive' = _cleanup_cache_archive(archive, clock, fails)
        /\ cleanup_in' = [n |-> cleanup_in.n + 1, dir |-> archive, fails |-> fails]
    /\ UNCHANGED <<salVars, clock, cur, tmp, gwVars, schedVars, fetches, superseded,
                   last_returned, slot_seen>>

CleanNext == CallCleanup

SpecClean == CleanInit /\ [][CleanNext]_vars

(***************************************************************************)
(* Properties                                                              *)
(***************************************************************************)

\* C1: at any moment at most one fetch worker is outstanding: the tick never
\* starts a worker while one it started earlier has not finished.
C1_AtMostOneWorker == Cardinality({w \in Workers : Active(w)}) <= 1

\* The tick found the flag set and leaves while a worker is inside get_weather.
C1_TickSkipsDuringFetch ==
    tw_pc = "release_return" /\ \E w \in Workers : wk_pc[w] = "fetch"

\* C2: the tick starts a fetch only when none is in flight and either no result
\* was ever obtained or at least 600 s have passed since the last completed
\* fetch, whatever a worker publishing its result does in between.
C2_StartsOnlyWhenDue ==
    tw_pc = "start" =>
        /\ \A w \in Workers : ~Active(w)
        /\ weather_res = "None" \/ clock - weather_last_fetch >= WEATHER_REFRESH_S

\* Whether the except branch can rebuild a result from file f: an object whose
\* payload is an object that parses.
Usable(f) ==
    LET r == _read_json(f) IN
    /\ r.k = "dict"
    /\ "payload" \in DOMAIN r.d
    /\ r.d.payload.k = "dict"
    /\ ~_extract_summary(r.d.payload, 0, 0).raise

CallEnded == gw_pc \in {"returned", "raised"}
NetworkFailed == http_end = "raised"

\* C3: get_weather always returns a WeatherResult and never raises, for every
\* network outcome and every content of the current cache slot.
C3_NeverRaises == gw_pc # "raised"

\* C4: when the network fetch fails and the slot holds a record whose payload
\* parses, the result has ok=true, source="cache" and the ts stored in the record.
C4_FallbackKeepsStoredTs ==
    (gw_pc = "returned" /\ NetworkFailed /\ Usable(cur0)) =>
        /\ ret.ok
        /\ ret.source = "cache"
        /\ ret.cache_ts = Get(cur0.c, "ts", JNull)

\* A fallback result that carries a stored ts older than the time of the call.
C4_FallbackReturned ==
    /\ gw_pc = "returned" /\ NetworkFailed /\ Usable(cur0)
    /\ ret.cache_ts = JInt(CachedTs)
    /\ clock > CachedTs

\* C5: when the network fetch fails and the slot holds no usable record, the
\* call returns the no-data result.
C5_NoDataWhenNothingUsable ==
    (CallEnded /\ NetworkFailed /\ ~Usable(cur0)) => (gw_pc = "returned" /\ ret = NoData)

\* C6: a slot that holds a readable record before a call holds one after it.
C6_LastKnownGoodKept == (CallEnded /\ Usable(cur0)) => Usable(cur)

\* C7: when the fetch and the parse succeed, the call returns the fresh result
\* tagged "online" even if writing the cache fails.
C7_WriteErrorStillOnline ==
    (CallEnded /\ res # NoResult) => (gw_pc = "returned" /\ ret = res /\ ret.source = "online")

\* C8: a call that returns "online" wrote the slot exactly once and moved at
\* most one file into the archive; a call that returns from a failure path left
\* the slot and the archive as they were.
C8_WritesOnlyOnSuccess ==
    gw_pc = "returned" =>
        IF ret.source = "online"
        THEN slot_writes = 1 /\ arch_moves <= 1
        ELSE cur = cur0 /\ archive = archive0

\* C9: _http_get_json makes at most 2 attempts; a URLError on attempt 1 is
\* followed by one sleep and a second attempt whose failure is raised; an
\* HTTPError is raised at once; a success ends the call.
C9_AtMostTwoAttempts ==
    LET n == Len(http_log) IN
    /\ n <= 2
    /\ http_sleeps <= 1
    /\ \A i \in 1..n :
        /\ http_log[i] = "HTTPError" => (i = n /\ http_end = "raised")
        /\ http_log[i] = "ok" => (i = n /\ http_end = "returned")
    /\ (n >= 1 /\ http_log[1] = "URLError") =>
        \/ n = 1 /\ http_end = "running" /\ http_sleeps = 0 /\ gw_pc = "sleep"
        \/ n = 1 /\ http_end = "running" /\ http_sleeps = 1 /\ gw_pc = "http"
        \/ n = 2 /\ http_sleeps = 1 /\ http_end # "running"
                 /\ (http_log[2] # "ok" => http_end = "raised")

\* Two transient failures: one sleep, then the second failure is raised.
C9_SecondFailureRaised ==
    http_log = <<"URLError", "URLError">> /\ http_sleeps = 1 /\ http_end = "raised"

AbsDiff(a, b) == IF a >= b THEN a - b ELSE b - a

\* The weekdays one day around the reference date: its own, the next, the previous.
NearWeekday(ref, wd) == (wd - weekday(ref.date) + 7) % 7 \in {0, 1, 6}

IntervalOf(it) == _item_interval_debug(now_dt, it)

\* The tuple in a list was built from the row.
TupleOf(t, it) ==
    /\ Card(t) = [Card(ListTuple(it, Zero, t.end_dt, t.start_dt)) EXCEPT !.progress = t.progress]
    /\ t.start_dt = IntervalOf(it).interval.start_dt
    /\ t.end_dt = IntervalOf(it).interval.end_dt

\* How many tuples of the list were built from rows like this one, and how
\* many rows like this one the sheet holds.
TuplesOf(list, it) == Cardinality({k \in 1..Len(list) : TupleOf(list[k], it)})
RowsLike(it) == Cardinality({j \in 1..Len(all_items) : all_items[j] = it})

\* x clamped to [0, 1]
Clamp01(x) == IF x.num < 0 THEN Zero ELSE IF x.num > x.den THEN One ELSE x

\* C11: a row with a resolvable interval is put in the current list (the list
\* before it is cut to six cards) exactly when start_instant <= reference <
\* end_instant, once per row, and its progress is (reference - start_instant) /
\* (end_instant - start_instant) clamped to [0, 1].
C11_CurrentIffInside ==
    ag_pc = "done" =>
        \A i \in 1..Len(all_items) :
            LET it == all_items[i]
                r == IntervalOf(it)
                start_s == Seconds(r.interval.start_dt)
                end_s == Seconds(r.interval.end_dt)
                ref_s == Seconds(now_dt)
                inside == start_s <= ref_s /\ ref_s < end_s
            IN r.reason = "ok" =>
                /\ TuplesOf(now_list, it) = (IF inside THEN RowsLike(it) ELSE 0)
                /\ \A k \in 1..Len(now_list) :
                        TupleOf(now_list[k], it) =>
                            now_list[k].progress = Clamp01(Frac(ref_s - start_s, end_s - start_s))

\* At 09:30 on a Wednesday a QUA row from 09:00 to 10:00 is shown as current
\* with progress 0.5.
C11_HalfwayAtNineThirty ==
    /\ ag_pc = "done"
    /\ now_dt.min = 570
    /\ weekday(now_dt.date) = DAY_TO_WD["QUA"]
    /\ \E k \in 1..Len(now_cards) :
        /\ now_cards[k].start = T(9, 0)
        /\ now_cards[k].end = T(10, 0)
        /\ now_cards[k].progress = Frac(1, 2)

\* C12, as claimed: a row with a resolvable interval is put in the upcoming list
\* exactly when reference <= start_instant <= reference + 120 minutes, and a row
\* starting later than that is in neither list.
C12_UpcomingIffInWindow ==
    ag_pc = "done" =>
        \A i \in 1..Len(all_items) :
            LET it == all_items[i]
                r == IntervalOf(it)
                start_s == Seconds(r.interval.start_dt)
                ref_s == Seconds(now_dt)
                win_s == ref_s + LookaheadMinutes * 60
                in_window == ref_s <= start_s /\ start_s <= win_s
            IN r.reason = "ok" =>
                /\ TuplesOf(next_list, it) = (IF in_window THEN RowsLike(it) ELSE 0)
                /\ start_s > win_s =>
                        TuplesOf(now_list, it) = 0 /\ TuplesOf(next_list, it) = 0

\* C12, amended: a row with a resolvable interval is put in the upcoming list
\* exactly when reference < start_instant <= reference + 120 minutes; a row that
\* starts at the reference instant is current and not upcoming, and a row
\* starting later than reference + 120 minutes is in neither list.
C12_UpcomingIffAhead ==
    ag_pc = "done" =>
        \A i \in 1..Len(all_items) :
            LET it == all_items[i]
                r == IntervalOf(it)
                start_s == Seconds(r.interval.start_dt)
                ref_s == Seconds(now_dt)
                win_s == ref_s + LookaheadMinutes * 60
                ahead == ref_s < start_s /\ start_s <= win_s
            IN r.reason = "ok" =>
                /\ TuplesOf(next_list, it) = (IF ahead THEN RowsLike(it) ELSE 0)
                /\ start_s = ref_s =>
                        TuplesOf(now_list, it) = RowsLike(it)
                /\ start_s > win_s =>
                        TuplesOf(now_list, it) = 0 /\ TuplesOf(next_list, it) = 0

\* A row starting exactly 120 minutes after the reference is upcoming, while a
\* row of the same sheet starting later is in neither list.
C12_WindowEdgeListed ==
    /\ ag_pc = "done"
    /\ \E i, j \in 1..Len(all_items) :
        LET near == all_items[i]
            far == all_items[j]
            ref_s == Seconds(now_dt)
        IN /\ IntervalOf(near).reason = "ok"
           /\ IntervalOf(far).reason = "ok"
           /\ Seconds(IntervalOf(near).interval.start_dt) = ref_s + LookaheadMinutes * 60
           /\ Seconds(IntervalOf(far).interval.start_dt) > ref_s + LookaheadMinutes * 60
           /\ TuplesOf(next_list, near) > 0
           /\ TuplesOf(next_list, far) = 0
           /\ TuplesOf(now_list, far) = 0

\* C13: the progress of every upcoming row is 1 - (start_instant - reference) /
\* (window_end - reference), clamped to [0, 1] and then raised to at least 0.02;
\* it is never below 0.02; for a row starting strictly inside the window it is
\* strictly between 0 and 1; and of two upcoming rows the one starting sooner
\* never has the smaller progress, and has the larger one once above the floor.
C13_UpcomingProgress ==
    ag_pc = "done" =>
        \A k \in 1..Len(next_list) :
            LET t == next_list[k]
                win == LookaheadMinutes * 60
                rem == Seconds(t.start_dt) - Seconds(now_dt)
                raw == Clamp01(Frac(win - rem, win))
            IN /\ t.progress = (IF raw.num * 100 < 2 * raw.den THEN Frac(2, 100) ELSE raw)
               /\ t.progress.num * 100 >= 2 * t.progress.den
               /\ (0 < rem /\ rem < win) =>
                      (0 < t.progress.num /\ t.progress.num < t.progress.den)
               /\ \A j \in 1..Len(next_list) :
                      LET u == next_list[j] IN
                      Seconds(u.start_dt) < Seconds(t.start_dt) =>
                          /\ ~FracLess(u.progress, t.progress)
                          /\ FracLess(NextFloor, u.progress) => FracLess(t.progress, u.progress)

\* A row starting 30 minutes after the reference is shown as upcoming with
\* progress 0.75, ahead of a later row with less progress.
C13_ThirtyMinutesAhead ==
    /\ ag_pc = "done"
    /\ \E k, j \in 1..Len(next_list) :
        /\ Seconds(next_list[k].start_dt) - Seconds(now_dt) = 30 * 60
        /\ next_list[k].progress = Frac(3, 4)
        /\ Seconds(next_list[j].start_dt) > Seconds(next_list[k].start_dt)
        /\ FracLess(next_list[j].progress, next_list[k].progress)
        /\ \E c \in 1..Len(next_cards) : next_cards[c] = Card(next_list[k])

\* C14: for every row with a valid day and valid times, the interval starts at
\* the row's start time; when the end time of day is not after the start time
\* of day the end is on the next calendar day and the interval lasts the
\* wrapped duration, otherwise both instants are on the same date; the tuples
\* of both lists carry these instants.
C14_EndWrapsToNextDay ==
    ag_pc = "done" =>
        /\ \A i \in 1..Len(all_items) :
            LET it == all_items[i]
                r == IntervalOf(it)
                start_min == parse_hhmm(it.start)
                end_min == parse_hhmm(it.end)
                lasts == Seconds(r.interval.end_dt) - Seconds(r.interval.start_dt)
            IN r.reason = "ok" =>
                /\ r.interval.start_dt.min = start_min
                /\ r.interval.end_dt.min = end_min
                /\ IF end_min <= start_min
                   THEN /\ r.interval.end_dt.date = r.interval.start_dt.date + 1
                        /\ lasts = (end_min + 24 * 60 - start_min) * 60
                   ELSE /\ r.interval.end_dt.date = r.interval.start_dt.date
                        /\ lasts = (end_min - start_min) * 60
        /\ \A k \in 1..Len(now_list) :
                \E i \in 1..Len(all_items) : TupleOf(now_list[k], all_items[i])
        /\ \A k \in 1..Len(next_list) :
                \E i \in 1..Len(all_items) : TupleOf(next_list[k], all_items[i])

\* A row from 23:30 to 00:30 is current at 23:45, with its end one hour after
\* its start and on the next day.
C14_OverMidnightListed ==
    /\ ag_pc = "done"
    /\ \E k \in 1..Len(now_list) :
        LET t == now_list[k] IN
        /\ parse_hhmm(t.start) = 23 * 60 + 30
        /\ parse_hhmm(t.end) = 30
        /\ t.end_dt.date = t.start_dt.date + 1
        /\ Seconds(t.end_dt) - Seconds(t.start_dt) = 3600
        /\ now_dt.date = t.start_dt.date

\* The card shows the row.
CardOf(c, it) ==
    c = [Card(ListTuple(it, Zero, NoInterval.end_dt, NoInterval.start_dt))
            EXCEPT !.progress = c.progress]

\* C15: the current list holds at most 6 cards in ascending order of
\* end_instant and the upcoming list at most 6 cards in ascending order of
\* start_instant; each holds the qualifying rows with the smallest keys, rows
\* with equal keys in sheet order: the row that has n qualifying rows before it
\* (a smaller key, or the same key and an earlier place in the sheet) is the
\* card number n + 1 when n < 6, and nothing else is shown.
C15_CappedAndOrdered ==
    ag_pc = "done" =>
        LET ref_s == Seconds(now_dt)
            win_s == ref_s + LookaheadMinutes * 60
            Rows == 1..Len(all_items)
            iv == [i \in Rows |-> IntervalOf(all_items[i])]
            starts == [i \in Rows |-> Seconds(iv[i].interval.start_dt)]
            ends == [i \in Rows |-> Seconds(iv[i].interval.end_dt)]
            Ok(i) == iv[i].reason = "ok"
            StartOf(i) == starts[i]
            EndOf(i) == ends[i]
            Cur == {i \in Rows : Ok(i) /\ StartOf(i) <= ref_s /\ ref_s < EndOf(i)}
            Upc == {i \in Rows : Ok(i) /\ i \notin Cur
                                  /\ ref_s <= StartOf(i) /\ StartOf(i) <= win_s}
            CurBefore(i) == Cardinality({j \in Cur : \/ EndOf(j) < EndOf(i)
                                                      \/ (EndOf(j) = EndOf(i) /\ j < i)})
            UpcBefore(i) == Cardinality({j \in Upc : \/ StartOf(j) < StartOf(i)
                                                      \/ (StartOf(j) = StartOf(i) /\ j < i)})
            AtMost6(n) == IF n < 6 THEN n ELSE 6
        IN /\ Len(now_cards) = AtMost6(Cardinality(Cur))
           /\ Len(next_cards) = AtMost6(Cardinality(Upc))
           /\ \A i \in Cur : CurBefore(i) < 6 => CardOf(now_cards[CurBefore(i) + 1], all_items[i])
           /\ \A i \in Upc : UpcBefore(i) < 6 => CardOf(next_cards[UpcBefore(i) + 1], all_items[i])

\* Seven rows are current, six cards are shown: a row ending sooner than the
\* rows before it in the sheet is shown first, two rows ending together are
\* shown in sheet order, and the last of the rows ending latest is left out.
C15_SeventhRowCut ==
    /\ ag_pc = "done"
    /\ Len(now_list) = 7
    /\ Len(now_cards) = 6
    /\ all_items[1].activity = "A"
    /\ all_items[2].activity = "B"
    /\ all_items[3].activity = "C"
    /\ all_items[7].activity = "B"
    /\ now_cards[1].activity = "C"
    /\ \E k \in 1..5 : now_cards[k].activity = "A" /\ now_cards[k + 1].activity = "B"
    /\ Cardinality({k \in 1..6 : now_cards[k].activity = "B"}) <
            Cardinality({i \in 1..7 : all_items[i].activity = "B"})

\* The row's day is no weekday code; one of its times does not parse.
BadDay(it) == StripUpper(it.day) \notin ValidDayCodes
BadTime(it) == parse_hhmm(it.start) = NoMinutes \/ parse_hhmm(it.end) = NoMinutes

\* The sheet without its invalid rows.
ValidRows(items) == SelectSeq(items, LAMBDA it : ~BadDay(it) /\ ~BadTime(it))

\* C16: rows with a bad day or an unparseable time are in neither list; each is
\* counted once, under invalid_day when the day is bad and otherwise under
\* invalid_time; and both lists, with their progress values and their order,
\* are what they would be had the sheet held the valid rows only.
C16_InvalidRowsDropped ==
    ag_pc = "done" =>
        LET Rows == 1..Len(all_items)
            clean == _compute_now_next(ValidRows(all_items), now_dt, 0)
        IN /\ discard_day = Cardinality({i \in Rows : BadDay(all_items[i])})
           /\ discard_time =
                Cardinality({i \in Rows : ~BadDay(all_items[i]) /\ BadTime(all_items[i])})
           /\ \A i \in Rows :
                (BadDay(all_items[i]) \/ BadTime(all_items[i])) =>
                    /\ \A k \in 1..Len(now_list) : ~CardOf(Card(now_list[k]), all_items[i])
                    /\ \A k \in 1..Len(next_list) : ~CardOf(Card(next_list[k]), all_items[i])
           /\ now_list = clean.now_list
           /\ next_list = clean.next_list
           /\ now_cards = clean.now_cards
           /\ next_cards = clean.next_cards

\* A row with a bad day and a bad time stands between two valid rows: it is
\* counted once, as invalid_day, and the two rows around it are both shown.
C16_BadRowBetweenValid ==
    /\ ag_pc = "done"
    /\ Len(all_items) = 3
    /\ BadDay(all_items[2]) /\ BadTime(all_items[2])
    /\ discard_day = 1
    /\ discard_time = 0
    /\ Len(now_cards) = 2
    /\ CardOf(now_cards[1], all_items[3])
    /\ CardOf(now_cards[2], all_items[1])

\* ---- the archive

\* The last n elements of a sequence, as a set.
LastOf(s, n) == {s[i] : i \in (Len(s) - n + 1)..Len(s)}

\* C17: after more than 10 successful fetches cache_old/ holds at most 10 files,
\* and they are the records superseded last.
C17_ArchiveHoldsLastTen ==
    fetches > CACHE_ARCHIVE_KEEP =>
        /\ Cardinality(archive) <= CACHE_ARCHIVE_KEEP
        /\ {f.c : f \in archive} = LastOf(superseded, Cardinality(archive))


NewRecord == CacheRecord(res.cache_ts, payload, "Alfenas")

\* C19: a reader of the slot, at any step of a write or after the process ended
\* at any step of one, sees no file or one complete record, the previous one or
\* the new one, never a partly written one.
C19_ReaderSeesWholeRecord ==
    /\ slot_seen.k \in {"unread", "nofile", "dict"}
    /\ cur.c.k \in {"nofile", "dict"}
    /\ gw_pc # "idle" =>
        \/ cur = Missing
        \/ cur = cur0
        \/ res # NoResult /\ cur.c = NewRecord

\* The process ended while the temporary file was partly written, and a reader
\* then got the previous record.
C19_ReadAfterTornWrite ==
    /\ gw_pc = "dead"
    /\ tmp.c = Partial
    /\ slot_seen.k = "dict"
    /\ slot_seen = cur.c

\* C20: two runs of the tick body never interleave and at most one tick timer
\* is pending: a _tick call made while a tick is running runs no body and
\* schedules nothing, and a running tick schedules the next one only as it exits.
C20_TicksNeverInterleave ==
    /\ Len(tick_stack) <= 1
    /\ Cardinality(timers) <= 1
    /\ tick_stack # <<>> => timers = {}
    /\ _tick_running <=> tick_stack # <<>>
    /\ tick_scheduled = tick_bodies - Len(tick_stack)

\* A call made during a running tick was turned away, and the next tick still
\* came from the one timer.
C20_NestedCallTurnedAway ==
    /\ tick_calls > tick_bodies
    /\ tick_bodies >= 2
    /\ tick_stack = <<>>
    /\ timers = {_tick_job}

\* C21: whenever _weather_inflight is set it is cleared later, on every path:
\* the worker succeeds, the worker fails, or the worker thread cannot be started.
C21_InflightEventuallyCleared == _weather_inflight ~> ~_weather_inflight

\* The statements a worker runs while it holds the lock.
LockedSteps == {"set_res", "set_last", "release", "clear", "final_release"}

\* C22: the tick keeps firing whatever the fetch does: when the tick waits for
\* the lock, its holder is not inside get_weather; every tick that has run left
\* exactly one timer pending; and every tick that starts ends, also when its
\* body raises and when a fetch never returns.
C22_TickKeepsFiring ==
    /\ [](\A w \in Workers : _weather_lock = LockWorker(w) => wk_pc[w] \in LockedSteps)
    /\ []((tick_stack = <<>> /\ tick_calls > 0) => timers = {_tick_job})
    /\ (tick_stack # <<>>) ~> (tick_stack = <<>>)

\* Two ticks have run and the next is scheduled while a worker is still inside
\* get_weather.
C22_TickEndsDuringFetch ==
    /\ tick_stack = <<>>
    /\ tick_bodies >= 2
    /\ timers = {_tick_job}
    /\ \E w \in Workers : wk_pc[w] = "fetch"

\* The running tick has left its try block.
TickBodyOver == AtStep("end") \/ AtStep("except")

\* C23: the cadences of a tick are independent: whatever step of a tick raises,
\* the weather check and the housekeeping check still run in that tick.
C23_CadencesIndependent ==
    TickBodyOver => {"weather", "housekeeping"} \subseteq tick_ran

\* C24: the housekeeping runs at boot and after that only when at least 86400 s
\* have passed since the run before: no two runs are less than a day apart.
C24_HousekeepingDayApart ==
    \A i \in 1..(Len(hk_runs) - 1) : hk_runs[i + 1] - hk_runs[i] >= HOUSEKEEPING_S

\* C25: every read and every write of weather_res, weather_last_fetch and
\* _weather_inflight, by the tick or by a worker, is made by the holder of
\* _weather_lock.
C25_SharedStateUnderLock ==
    /\ tw_pc \in {"check_last", "check_res", "locked"} => _weather_lock = LockTick
    /\ AtStep("res_read") => _weather_lock = LockTick
    /\ \A w \in Workers :
        wk_pc[w] \in {"set_res", "set_last", "clear"} => _weather_lock = LockWorker(w)

\* The tick holds the lock for one read or one update of the flag.
TickHoldsBriefly ==
    /\ _weather_lock = LockTick
    /\ tw_pc \in {"locked", "release_return", "release_start"} \/ AtStep("res_read")

\* C26: while a worker is inside get_weather the lock is free, or the tick has
\* it for a single read or update of the flag.
C26_LockFreeDuringFetch ==
    \A w \in Workers :
        wk_pc[w] = "fetch" => (_weather_lock = LockFree \/ TickHoldsBriefly)

\* The tick reads weather_res under the lock while a worker is inside
\* get_weather.
C26_TickReadsDuringFetch ==
    /\ AtStep("res_read")
    /\ _weather_lock = LockTick
    /\ \E w \in Workers : wk_pc[w] = "fetch"

\* The temperatures of the points of the response that fall on day d.
TempsOn(d) ==
    LET ps == payload.d.properties.d.timeseries.items IN
    {_safe_int(ps[i].d.data.d.instant.d.details.d.air_temperature).v :
        i \in {j \in 1..Len(ps) :
                  /\ TimeDay[ps[j].d.time.s] = d
                  /\ ps[j].d.data.d.instant.d.details.d.air_temperature.k # "null"}}

\* C27: the tomorrow label gives the lowest and the highest temperature over
\* the points of the next calendar day and no others, and is the placeholder
\* when there is no such point.
C27_TomorrowFromNextDayOnly ==
    (gw_pc = "archive" /\ res # NoResult) =>
        IF TempsOn(1) = {}
        THEN res.tomorrow_label = TomorrowPlaceholder
        ELSE /\ res.tomorrow_label # TomorrowPlaceholder
             /\ res.tomorrow_label.tmin \in TempsOn(1)
             /\ \A t \in TempsOn(1) : res.tomorrow_label.tmin <= t
             /\ res.tomorrow_label.tmax \in TempsOn(1)
             /\ \A t \in TempsOn(1) : res.tomorrow_label.tmax >= t

\* C28: every row that appears in the current or the upcoming list was dated
\* on a day of its own weekday: the weekday of its resolved start date is the
\* weekday of its day code.
C28_ListedOnOwnWeekday ==
    ag_pc = "done" =>
        \A i \in 1..Len(all_items) :
            \A k \in 1..Len(now_list \o next_list) :
                TupleOf((now_list \o next_list)[k], all_items[i]) =>
                    weekday((now_list \o next_list)[k].start_dt.date)
                        = DAY_TO_WD[StripUpper(all_items[i].day)]

\* C29: housekeeping that runs while a worker writes the cache cannot make the
\* fetch fail or lose the record: a call that got its response from the
\* network and extracted it returns source "online" and leaves the new record
\* in the current slot.
C29_FetchSurvivesHousekeeping ==
    (gw_pc = "returned" /\ http_end = "returned" /\ res # NoResult) =>
        /\ ret.source = "online"
        /\ Exists(cur)
        /\ cur.c = CacheRecord(res.cache_ts, payload, "Alfenas")

\* The same, of the calls no housekeeping ran beside.
C29_FetchAloneSucceeds == hk_runs = <<>> => C29_FetchSurvivesHousekeeping

\* The results get_weather gives when no fresh data was obtained.
Degraded == {"cache", "nodata"}

\* A worker has published a degraded result and set the last-fetch time.
DegradedPublished ==
    \A w \in Workers :
        (wk_pc[w] = "release" /\ wk_res[w] \in Degraded) =>
            /\ weather_res = wk_res[w]
            /\ weather_last_fetch \in SchedStart..clock

\* C30: a fetch that ends with a degraded result (cache fallback or no data)
\* counts as a completed fetch: the result is put in the shared cell, the
\* last-fetch time is set, and no new fetch is started during the 600 s that
\* follow.
C30_DegradedCountsAsFetch ==
    /\ DegradedPublished
    /\ (tw_pc = "start" /\ weather_res \in Degraded) =>
            clock - weather_last_fetch >= WEATHER_REFRESH_S

\* Worker w takes a step on its exception path: get_weather raises, or the
\* finally clause runs after it raised (the worker holds no result).
RaisedStep(w) ==
    /\ wk_res[w] = "None"
    /\ wk_pc'[w] # wk_pc[w]
    /\ \/ wk_pc[w] = "fetch" /\ wk_pc'[w] = "final_acquire"
       \/ wk_pc[w] \in {"final_acquire", "clear", "final_release"}

\* A worker that raised leaves the cell and the last-fetch time as they were
\* and changes the flag to false only.
RaisedFrame ==
    \A w \in Workers :
        RaisedStep(w) =>
            /\ weather_res' = weather_res
            /\ weather_last_fetch' = weather_last_fetch
            /\ _weather_inflight' # _weather_inflight => ~_weather_inflight'
            /\ wk_pc'[w] = "none" => ~_weather_inflight'

\* When a worker that raised has finished, the test of line 1382 lets the next
\* tick through to start a fetch.
RaisedLeavesTickEligible ==
    \A w \in Workers :
        (RaisedStep(w) /\ wk_pc'[w] = "none") =>
            (weather_res' = "None" \/ clock' - weather_last_fetch' >= WEATHER_REFRESH_S)

\* The frame alone.
C31_FrameOnly == [][RaisedFrame]_vars

\* C31: a worker that ends with an exception leaves the latest-result cell and
\* the last-fetch time unchanged and only sets the in-flight flag to false, so
\* the very next tick is again eligible to start a fetch.
C31_RaisedWorkerFrame == [][RaisedFrame /\ RaisedLeavesTickEligible]_vars

\* The files of the directory the last call found that passed its age check.
PassedAge == {f \in cleanup_in.dir : clock - f.m <= CACHE_ARCHIVE_MAX_AGE_DAYS * SecondsPerDay}

\* C32: after _cleanup_cache_archive ran with every deletion succeeding, no
\* file older than 7 days remains and the files left are the (at most 10) most
\* recently modified of those that passed the age check; a deletion that fails
\* leaves its own file and changes nothing else.
C32_CleanupKeepsNewestTen ==
    cleanup_in.n > 0 =>
        /\ cleanup_in.fails = {} =>
                /\ archive \subseteq PassedAge
                /\ Cardinality(archive) = MinOf(CACHE_ARCHIVE_KEEP, Cardinality(PassedAge))
                /\ \A f \in archive : \A g \in PassedAge \ archive : f.m >= g.m
        /\ archive = _cleanup_cache_archive(cleanup_in.dir, clock, {})
                        \cup {f \in cleanup_in.dir : f.name \in cleanup_in.fails}

\* A call found more than ten files that passed the age check and one that did
\* not; it could not delete the old one and deleted another.
C32_OneRemovalFailed ==
    /\ cleanup_in.n > 0
    /\ Cardinality(PassedAge) > CACHE_ARCHIVE_KEEP
    /\ \E f \in archive : f \notin PassedAge /\ f.name \in cleanup_in.fails
    /\ Cardinality(cleanup_in.dir \ archive) >= 2

\* Every archive file whose name is still in cache_old/ after the step is the
\* file it was before the step.
NoArchiveOverwritten == \A f \in archive : f.name \in Names(archive') => f \in archive'

\* C33: archiving the current record never overwrites an existing archive
\* file, for every sequence of writes, several records with the same fetch
\* time archived within one second included.
C33_ArchiveNeverOverwrites == [][NoArchiveOverwritten]_vars

\* The next call of _reload_excel_if_needed will try again: getmtime raises
\* again, or the test of line 1290 holds.
ReloadDue ==
    xl_file.k = "missing" \/ last_excel_mtime = NoMtime \/ xl_file.m # last_excel_mtime

\* A call of _reload_excel_if_needed ends in this step.
ReloadEnds == reload_done'.n = reload_done.n + 1

\* C34: a reload that succeeds replaces the whole collection with the rows of
\* the workbook and records the modification time it read; a reload that fails
\* leaves the collection and the recorded modification time unchanged, and
\* with the file as the failed call left it the next call tries again.
C34_ReloadAllOrNothing ==
    [][/\ (ReloadEnds /\ reload_done'.end = "loaded") =>
            /\ all_items' = xl_file.rows
            /\ last_excel_mtime' = rl.mtime
            /\ rl.mtime # NoMtime
       /\ (ReloadEnds /\ reload_done'.end = "failed") =>
            /\ all_items' = all_items
            /\ last_excel_mtime' = last_excel_mtime
            /\ ReloadDue'
      ]_vars

\* A reload failed after an earlier one had loaded rows, which are kept.
C34_FailedReloadKeepsRows ==
    /\ reload_done.end = "failed"
    /\ all_items # <<>>
    /\ last_excel_mtime # NoMtime
    /\ xl_file.k = "bad"
    /\ xl_file.m > last_excel_mtime

\* C35: in _http_get_json every failure of the first attempt other than an
\* HTTPError is followed by one sleep and exactly one more attempt, a received
\* body that does not decode as JSON included; an HTTPError ends the call at
\* once.
C35_NonHttpFailureRetriedOnce ==
    /\ Len(http_log) <= 2
    /\ (Len(http_log) >= 1 /\ http_end # "running"
            /\ http_log[1] \in {"URLError", "JSONDecodeError", "Exception"}) =>
            Len(http_log) = 2 /\ http_sleeps = 1
    /\ (Len(http_log) >= 1 /\ http_log[1] = "HTTPError") =>
            Len(http_log) = 1 /\ http_sleeps = 0 /\ http_end = "raised"

\* The first body did not decode, the second attempt returned a response.
C35_BadBodyThenOk ==
    http_log = <<"JSONDecodeError", "ok">> /\ http_sleeps = 1 /\ http_end = "returned"

\* The row starts at the reference instant.
StartsNow(it) ==
    /\ IntervalOf(it).reason = "ok"
    /\ Seconds(IntervalOf(it).interval.start_dt) = Seconds(now_dt)

\* C36: no row is in both the current and the upcoming list of one pass, and a
\* row that starts at the reference instant is in the current list only.
C36_NeverInBothLists ==
    ag_pc = "done" =>
        \A i \in 1..Len(all_items) :
            /\ TuplesOf(now_list, all_items[i]) = 0 \/ TuplesOf(next_list, all_items[i]) = 0
            /\ StartsNow(all_items[i]) =>
                    /\ TuplesOf(now_list, all_items[i]) = RowsLike(all_items[i])
                    /\ TuplesOf(next_list, all_items[i]) = 0

\* A row that starts at the reference instant was placed, beside a row that
\* started before.
C36_StartsNowIsCurrent ==
    /\ ag_pc = "done"
    /\ \E i \in 1..Len(all_items) :
        /\ StartsNow(all_items[i])
        /\ TuplesOf(now_list, all_items[i]) = 1
    /\ Len(now_list) >= 2

\* The seconds an interval lasts.
Lasts(iv) == Seconds(iv.end_dt) - Seconds(iv.start_dt)

\* C37: every resolved interval lasts more than 0 s and at most 24 hours, and
\* exactly 24 hours when the start and end times of the row are equal; so no
\* row of the current list had its progress from the branch for a duration of
\* zero or less.
C37_DurationPositive ==
    ag_pc = "done" =>
        /\ \A i \in 1..Len(all_items) :
            IntervalOf(all_items[i]).reason = "ok" =>
                /\ Lasts(IntervalOf(all_items[i]).interval) > 0
                /\ Lasts(IntervalOf(all_items[i]).interval) <= SecondsPerDay
                /\ _parse_time_obj(all_items[i].start) = _parse_time_obj(all_items[i].end) =>
                        Lasts(IntervalOf(all_items[i]).interval) = SecondsPerDay
        /\ \A k \in 1..Len(now_list) :
            /\ Seconds(now_list[k].end_dt) - Seconds(now_list[k].start_dt) > 0
            /\ now_list[k].progress =
                    Frac(Seconds(now_dt) - Seconds(now_list[k].start_dt),
                         Seconds(now_list[k].end_dt) - Seconds(now_list[k].start_dt))

\* A row whose end time equals its start time is current and lasts 24 hours.
C37_FullDayRowCurrent ==
    /\ ag_pc = "done"
    /\ \E k \in 1..Len(now_list) :
        /\ _parse_time_obj(now_list[k].start) = _parse_time_obj(now_list[k].end)
        /\ Seconds(now_list[k].end_dt) - Seconds(now_list[k].start_dt) = SecondsPerDay

\* The call that just returned wrote the anomaly line.
JustLogged ==
    /\ ag_pc = "done"
    /\ zero_logs # <<>>
    /\ zero_logs[Len(zero_logs)] = Seconds(now_dt)

\* C38: the empty-classification anomaly is logged only when the sheet has
\* rows and both lists are empty, and any two log lines are more than 60 s
\* apart, however many ticks see the anomaly in between.
C38_AnomalyLogSpaced ==
    /\ JustLogged => (all_items # <<>> /\ now_cards = <<>> /\ next_cards = <<>>)
    /\ \A i \in 1..(Len(zero_logs) - 1) : zero_logs[i + 1] - zero_logs[i] > 60

\* The anomaly was logged twice, with ticks in between that saw it and did
\* not log it.
C38_SecondLogAfterAMinute ==
    /\ Len(zero_logs) = 2
    /\ zero_logs[2] - zero_logs[1] = LongPause + 1
    /\ JustLogged
====
